---- MODULE Spec2Model ----
(***************************************************************************)
(* The user service of cs2-marketplace-microservices: the cached use case  *)
(* layer (UserUseCase with a go-cache in front of the MongoDB user         *)
(* repository) and the balance-transfer saga.                              *)
(*                                                                         *)
(* Every request runs on its own worker (a process of Procs).  A step of   *)
(* a process is one repository call, or the cache calls and the accesses  *)
(* to a *models.User that the request makes between two repository       *)
(* calls.  The cache stores pointers, so cached users live in a heap  *)
(* and a cache entry holds a reference.  float64 balances are modelled by *)
(* integers (the amounts used are small integers, on which float64        *)
(* arithmetic is exact).                                                   *)
(*                                                                         *)
(* The expiry of cache entries is left out: it only removes entries, which *)
(* turns a later hit into a miss and a read of the repository.             *)
(***************************************************************************)
EXTENDS Integers, FiniteSets, Sequences, TLC

VARIABLES db, cache, heap, proc, nops, ledger, sessions,
          skins, skinCache, skinProc, skinOps,
          txns, txnCache, txnProc, txnOps, now

\* the state of the user service, of the inventory service and of the
\* transaction service with its clock
userSvc == <<db, cache, heap, proc, nops, ledger, sessions>>
inventorySvc == <<skins, skinCache, skinProc, skinOps>>
transactionSvc == <<txns, txnCache, txnProc, txnOps, now>>

vars == <<userSvc, inventorySvc, transactionSvc>>

\* ------------------------------------------------------------------ bounds

\* number of requests started in one behaviour
MaxOps == 3
\* the same, for the behaviours of SpecWrite
MaxWriteOps == 2
\* the same, for the requests of the inventory service
MaxSkinOps == 3
\* the same, for the requests of the transaction service
MaxTxnOps == 3
\* the minutes that pass in one behaviour
MaxTime == 3
\* the reads started in one behaviour of SpecReads, over the three services
MaxReadOps == 3
\* the same, for the behaviours of SpecMismatch
MaxFaultReads == 2
\* requests to the user service in a run with sessions
MaxSessionOps == 4
\* requests to the user service in a run with registrations
MaxRegisterOps == 3
\* requests to the user service in a run with logouts
MaxLogoutOps == 4
\* requests to the user service in a run with time
MaxExpiryOps == 3
\* the lifetime of a session (24 hours), in steps of the clock
SessionTTL == 1
\* the bits of the significand of a balance
MantBits == 4
MaxTransferOps == 2
MaxKeyOps == 3
MaxDeleteOps == 3
MaxForgotOps == 3
MaxStatusOps == 3
\* the largest number a request carries as its status
MaxStatus == 4

Procs == {1, 2}
Users == {"u1", "u2"}
Emails == {"e1", "e2", "e3"}
Usernames == {"n1", "n2", "n3"}
\* password hashes: a password is identified with its hash
Passwords == {"h0", "h1"}
NewPasswords == {"h1"}
\* what the token repository answers for a reset token: no token, a token past
\* its expiry, or the e-mail address of a token in force
ResetTokens == {"invalid", "expired"} \cup Emails
\* amounts a client may send: the use case receives any float64
Amounts == {-1, 0, 1, 2}
\* the amounts of the requests that run concurrently
ConcurrentAmounts == {1}

\* ------------------------------------------------------------------ values

\* the nil *models.User
Nil == 0

\* a document that is not in the collection
NoDoc == [exists |-> FALSE, username |-> "", email |-> "", password |-> "",
          balance |-> 0, isAdmin |-> FALSE]

Doc(n, e, pw, bal, adm) ==
    [exists |-> TRUE, username |-> n, email |-> e, password |-> pw,
     balance |-> bal, isAdmin |-> adm]

\* a models.User decoded from the document of id
UserOf(id, doc) ==
    [id |-> id, username |-> doc.username, email |-> doc.email,
     password |-> doc.password, balance |-> doc.balance, isAdmin |-> doc.isAdmin]

\* error values: an error is identified by the place that created it
ErrNil == [site |-> "nil", msg |-> ""]
NoRes == [site |-> "-", msg |-> "-"]
ErrInsufficientBalance == [site |-> "usecase.ErrInsufficientBalance", msg |-> "insufficient balance"]
ErrSenderNotFound == [site |-> "TransferBalance:445", msg |-> "sender not found"]
ErrInsufficient449 == [site |-> "TransferBalance:449", msg |-> "insufficient balance"]
ErrRecipientNotFound == [site |-> "TransferBalance:454", msg |-> "recipient not found"]
\* an error of the MongoDB driver, returned unchanged by the repository
ErrRepo == [site |-> "mongo", msg |-> "repository failure"]
\* mongo.ErrNoDocuments from FindOne(...).Decode
ErrNoDocuments == [site |-> "mongo", msg |-> "no documents in result"]
ErrInvalidToken == [site |-> "ResetPassword:258", msg |-> "invalid or expired token"]
ErrTokenExpired == [site |-> "ResetPassword:263", msg |-> "token expired"]
ErrResetUserNotFound == [site |-> "ResetPassword:272", msg |-> "user not found"]
ErrChangeUserNotFound == [site |-> "ChangePassword:297", msg |-> "user not found"]
ErrPasswordIncorrect == [site |-> "ChangePassword:301", msg |-> "current password is incorrect"]
ErrEmailInUse == [site |-> "UpdateUserProfile", msg |-> "email already in use"]
ErrUsernameInUse == [site |-> "UpdateUserProfile", msg |-> "username already in use"]

\* ------------------------------------------------------------------ cache keys

CacheKeyUserByID == "user:id:"
CacheKeyUserByEmail == "user:email:"
CacheKeyUserByUsername == "user:username:"
CacheKeyBalance == "balance:"

\* prefix + parameter; no prefix is a prefix of another, so the pair is the key
Key(prefix, param) == <<prefix, param>>

\* the Hex() of primitive.NilObjectID, the ID of a models.User that was not
\* read from the collection
ZeroID == "000"

Keys ==
    ({CacheKeyUserByID, CacheKeyBalance} \X (Users \cup {ZeroID}))
    \cup ({CacheKeyUserByEmail} \X Emails)
    \cup ({CacheKeyUserByUsername} \X Usernames)

NoEntry == [kind |-> "none", ref |-> Nil, val |-> 0]
UserEntry(r) == [kind |-> "user", ref |-> r, val |-> 0]
FloatEntry(v) == [kind |-> "float64", ref |-> Nil, val |-> v]

\* cache.Get / cache.Set / cache.Delete of go-cache
CacheGet(c, k) == c[k]
CacheSet(c, k, e) == [c EXCEPT ![k] = e]
CacheDelete(c, k) == [c EXCEPT ![k] = NoEntry]

\* getUserFromCache: a hit only if the entry is a *models.User
GetUserFromCache(c, k) ==
    IF CacheGet(c, k).kind = "user" THEN CacheGet(c, k).ref ELSE Nil

\* ------------------------------------------------------------------ float64

\* Balance and amount are float64, and $inc adds two doubles: the sum is rounded
\* to the significand, ties to the even significand.  A number here counts the
\* smallest unit of the amounts in use; the significand has MantBits bits where
\* a float64 has 53, so that a sum is exact below 2^MantBits and rounded above.
RECURSIVE Pow2(_)
Pow2(n) == IF n = 0 THEN 1 ELSE 2 * Pow2(n - 1)

\* the number of low bits of m that do not fit the significand
RECURSIVE Float64Drop(_)
Float64Drop(m) == IF m < Pow2(MantBits) THEN 0 ELSE 1 + Float64Drop(m \div 2)

Float64RoundAbs(m) ==
    LET e == Float64Drop(m)
        q == m \div Pow2(e)
        r == m % Pow2(e)
        up == 2 * r > Pow2(e) \/ (2 * r = Pow2(e) /\ q % 2 = 1)
    IN  IF e = 0 THEN m ELSE (IF up THEN q + 1 ELSE q) * Pow2(e)

Float64Round(x) == IF x < 0 THEN 0 - Float64RoundAbs(0 - x) ELSE Float64RoundAbs(x)

Float64Add(x, y) == Float64Round(x + y)

\* ------------------------------------------------------------------ repository

RepoGetUserByID(d, id) == IF id \in Users THEN d[id] ELSE NoDoc

\* an update that writes the amount with $set instead of adding it with $inc
RepoUpdateUserBalanceSet(d, id, amount) ==
    IF d[id].exists THEN [d EXCEPT ![id].balance = amount] ELSE d

\* UpdateOne({_id: id}, {$inc: {balance: amount}}): matches nothing, and reports
\* no error, when the document is gone
RepoUpdateUserBalance(d, id, amount) ==
    IF d[id].exists THEN [d EXCEPT ![id].balance = Float64Add(@, amount)] ELSE d

\* UpdateByID(user.ID, {$set: user}): every field of the struct is written
RepoUpdateUser(d, u) ==
    IF d[u.id].exists
    THEN [d EXCEPT ![u.id] = Doc(u.username, u.email, u.password, u.balance, u.isAdmin)]
    ELSE d

RepoDeleteUser(d, id) == [d EXCEPT ![id] = NoDoc]

\* FindOne({email: email}), FindOne({username: username}): the ids of the
\* documents that match; FindOne decodes one of them
RepoGetUserByEmail(d, email) == {u \in Users : d[u].exists /\ d[u].email = email}
RepoGetUserByUsername(d, username) == {u \in Users : d[u].exists /\ d[u].username = username}

\* User.CheckPassword: the stored hash is the hash of the password given
CheckPassword(u, password) == u.password = password

\* ------------------------------------------------------------------ heap

Alloc(h) == CHOOSE i \in 1..(Cardinality(DOMAIN h) + 1) : i \notin DOMAIN h

Refs(c, pr) ==
    ({c[k].ref : k \in Keys} \cup {pr[p].gu : p \in Procs}) \ {Nil}

\* objects no pointer reaches are collected
GC(h, c, pr) == [i \in (DOMAIN h \cap Refs(c, pr)) |-> h[i]]

HeapPut(h, i, u) == [j \in (DOMAIN h \cup {i}) |-> IF j = i THEN u ELSE h[j]]

\* ------------------------------------------------------------------ sessions

\* the values security.GenerateToken returns, each of them once
Tokens == {"k1", "k2"}

\* The sessions: the collection "sessions" (repo: the user of each stored
\* token, "" for none) and the entries of the cache under session:<token>
\* (cache), which are sessions that have not expired.  issued is the user
\* each token was created for, revoked the tokens that were issued to a user
\* before a ResetPassword for that user returned success, name the username
\* of the Register call that returned the token, out the tokens for which a
\* Logout returned success.  exp is the ExpiresAt of a session and cexp the
\* time until which the cache returns its entry.
NoSessions ==
    [repo |-> [t \in Tokens |-> ""], cache |-> [t \in Tokens |-> ""],
     issued |-> [t \in Tokens |-> ""], revoked |-> {}, name |-> [t \in Tokens |-> ""],
     out |-> {}, exp |-> [t \in Tokens |-> 0], cexp |-> [t \in Tokens |-> 0]]

\* uc.cache.Delete(CacheKeySession + token)
SessionUncached(s, t) == [s EXCEPT !.cache[t] = "", !.cexp[t] = 0]

\* createSession: expiresAt := time.Now().Add(24 * time.Hour),
\* sessionRepo.CreateSession and, later by slack,
\* uc.cache.Set(CacheKeySession+token, session, 24*time.Hour)
CreateSession(s, t, userID, slack) ==
    [s EXCEPT !.repo[t] = userID, !.cache[t] = userID, !.issued[t] = userID,
              !.exp[t] = now + SessionTTL, !.cexp[t] = now + SessionTTL + slack]

\* sessionRepo.DeleteSessionsForUser: DeleteMany of the user's documents
DeleteSessionsForUser(s, userID) ==
    [s EXCEPT !.repo = [t \in Tokens |-> IF s.repo[t] = userID THEN "" ELSE s.repo[t]]]

\* ------------------------------------------------------------------ processes

\* what a request finds stored when it arrives: the stored balances, or only
\* which documents exist
Snapshot(d) == [u \in Users |-> [exists |-> d[u].exists, balance |-> d[u].balance]]
Existing(d) == [u \in Users |-> [exists |-> d[u].exists, balance |-> 0]]
NoSnapshot == [u \in Users |-> [exists |-> FALSE, balance |-> 0]]

IdleProc ==
    [pc |-> "idle", op |-> "-", a |-> "-", b |-> "-", amt |-> 0,
     gid |-> "-", ret |-> "-", gu |-> Nil, gerr |-> ErrNil,
     res |-> NoRes, val |-> 0, pre |-> NoSnapshot, flt |-> FALSE,
     deb |-> "-", cred |-> "-", rb |-> "-",
     email |-> "", username |-> "", password |-> "", cur |-> "",
     oldEmail |-> "", oldUsername |-> "", token |-> "", isAdmin |-> FALSE,
     late |-> FALSE]

Free(p) == proc[p].pc = "idle"

\* the step of p
CommitAll(p, rec, d2, c2, h2, s2) ==
    LET pr2 == [proc EXCEPT ![p] = rec]
    IN /\ proc' = pr2
       /\ db' = d2
       /\ cache' = c2
       /\ heap' = GC(h2, c2, pr2)
       /\ sessions' = s2

\* a step of p that leaves the sessions alone
Commit(p, rec, d2, c2, h2) == CommitAll(p, rec, d2, c2, h2, sessions)

\* a request arrives at worker p
\* (workers are interchangeable: the free worker of least number takes it)
BeginCall(p, rec) ==
    /\ Free(p)
    /\ \A q \in Procs : Free(q) => p <= q
    /\ nops' = nops + 1
    /\ Commit(p, rec, db, cache, heap)

Begin(p, op, a, b, amt, pc, gid, ret, pre) ==
    BeginCall(p, [IdleProc EXCEPT !.pc = pc, !.op = op, !.a = a, !.b = b, !.amt = amt,
                                  !.gid = gid, !.ret = ret, !.pre = pre])

\* the call of p returns err
Returned(p, err) ==
    [proc[p] EXCEPT !.pc = "done", !.res = err, !.gu = Nil,
                    !.gid = "-", !.ret = "-", !.gerr = ErrNil,
                    !.email = "", !.username = "", !.password = "", !.cur = "",
                    !.oldEmail = "", !.oldUsername = ""]

At(p, pc) == proc[p].pc = pc

\* the worker of a returned call becomes free
Exit(p) ==
    /\ At(p, "done")
    /\ proc' = [proc EXCEPT ![p] = IdleProc]
    /\ UNCHANGED <<db, cache, heap, sessions>>

\* ------------------------------------------------------------------ GetUserProfile

\* uc.getUserFromCache(CacheKeyUserByID + userID)
GupGet(p) ==
    /\ At(p, "gup_get")
    /\ LET r == GetUserFromCache(cache, Key(CacheKeyUserByID, proc[p].gid))
       IN IF r # Nil
          THEN Commit(p, [proc[p] EXCEPT !.pc = proc[p].ret, !.gu = r, !.gerr = ErrNil],
                      db, cache, heap)
          ELSE Commit(p, [proc[p] EXCEPT !.pc = "gup_repo"], db, cache, heap)

\* uc.userRepo.GetUserByID(ctx, userID)
GupRepo(p) ==
    /\ At(p, "gup_repo")
    /\ \E fail \in BOOLEAN :
          IF fail \/ ~RepoGetUserByID(db, proc[p].gid).exists
          THEN Commit(p, [proc[p] EXCEPT !.pc = proc[p].ret, !.gu = Nil,
                                         !.gerr = IF fail THEN ErrRepo ELSE ErrNoDocuments,
                                         !.flt = @ \/ fail],
                      db, cache, heap)
          ELSE LET i == Alloc(heap)
               IN Commit(p, [proc[p] EXCEPT !.pc = "gup_set", !.gu = i],
                         db, cache,
                         HeapPut(heap, i, UserOf(proc[p].gid, RepoGetUserByID(db, proc[p].gid))))

\* uc.setUserCache(CacheKeyUserByID+userID, user);
\* uc.setUserCache(CacheKeyUserByEmail+user.Email, user);
\* uc.setUserCache(CacheKeyUserByUsername+user.Username, user); return user, nil
GupSet(p) ==
    /\ At(p, "gup_set")
    /\ LET u == heap[proc[p].gu]
           c1 == CacheSet(cache, Key(CacheKeyUserByID, proc[p].gid), UserEntry(proc[p].gu))
           c2 == CacheSet(c1, Key(CacheKeyUserByEmail, u.email), UserEntry(proc[p].gu))
           c3 == CacheSet(c2, Key(CacheKeyUserByUsername, u.username), UserEntry(proc[p].gu))
       IN Commit(p, [proc[p] EXCEPT !.pc = proc[p].ret, !.gerr = ErrNil], db, c3, heap)

\* a GetUserProfile request
StartGetUserProfile(p) ==
    \E a \in Users : Begin(p, "GetUserProfile", a, "-", 0, "gup_get", a, "gp_ret", Existing(db))

GpRet(p) ==
    /\ At(p, "gp_ret")
    /\ Commit(p, [Returned(p, proc[p].gerr)
                    EXCEPT !.val = IF proc[p].gerr # ErrNil THEN 0 ELSE heap[proc[p].gu].balance],
              db, cache, heap)

\* ------------------------------------------------------------------ GetBalance

StartGetBalance(p) ==
    \E a \in Users : Begin(p, "GetBalance", a, "-", 0, "gb_get", "-", "-", Existing(db))

\* uc.cache.Get(CacheKeyBalance + userID): a hit only if the entry is a float64;
\* otherwise GetUserProfile is called
GbGet(p) ==
    /\ At(p, "gb_get")
    /\ LET e == CacheGet(cache, Key(CacheKeyBalance, proc[p].a))
       IN IF e.kind = "float64"
          THEN Commit(p, [Returned(p, ErrNil) EXCEPT !.val = e.val], db, cache, heap)
          ELSE Commit(p, [proc[p] EXCEPT !.pc = "gup_get", !.gid = proc[p].a, !.ret = "gb_set"],
                      db, cache, heap)

\* if err != nil return 0, err; uc.cache.Set(CacheKeyBalance+userID, user.Balance, 1m)
GbSet(p) ==
    /\ At(p, "gb_set")
    /\ IF proc[p].gerr # ErrNil
       THEN Commit(p, Returned(p, proc[p].gerr), db, cache, heap)
       ELSE Commit(p, [Returned(p, ErrNil) EXCEPT !.val = heap[proc[p].gu].balance], db,
                   CacheSet(cache, Key(CacheKeyBalance, proc[p].a),
                            FloatEntry(heap[proc[p].gu].balance)), heap)

\* ------------------------------------------------------------------ UpdateBalance

StartUpdateBalance(p) ==
    \E a \in Users, amt \in Amounts :
       Begin(p, "UpdateBalance", a, "-", amt, "ub_repo", "-", "-", Existing(db))

\* uc.userRepo.UpdateUserBalance(ctx, userID, amount)
UbRepo(p) ==
    /\ At(p, "ub_repo")
    /\ \E fail \in BOOLEAN :
          IF fail
          THEN Commit(p, [Returned(p, ErrRepo) EXCEPT !.flt = TRUE], db, cache, heap)
          ELSE Commit(p, [proc[p] EXCEPT !.pc = "ub_invalidate"],
                      RepoUpdateUserBalance(db, proc[p].a, proc[p].amt), cache, heap)

\* uc.cache.Delete(CacheKeyBalance + userID);
\* uc.cache.Delete(CacheKeyUserByID + userID); return nil
UbInvalidate(p) ==
    /\ At(p, "ub_invalidate")
    /\ Commit(p, Returned(p, ErrNil), db,
              CacheDelete(CacheDelete(cache, Key(CacheKeyBalance, proc[p].a)),
                          Key(CacheKeyUserByID, proc[p].a)), heap)

\* ------------------------------------------------------------------ DeleteUser

StartDeleteUser(p) ==
    \E a \in Users : Begin(p, "DeleteUser", a, "-", 0, "gup_get", a, "du_repo", Existing(db))

\* if err != nil return err; uc.userRepo.DeleteUser(ctx, userID)
DuRepo(p) ==
    /\ At(p, "du_repo")
    /\ IF proc[p].gerr # ErrNil
       THEN Commit(p, Returned(p, proc[p].gerr), db, cache, heap)
       ELSE \E fail \in BOOLEAN :
               IF fail
               THEN Commit(p, [Returned(p, ErrRepo) EXCEPT !.flt = TRUE], db, cache, heap)
               ELSE Commit(p, [proc[p] EXCEPT !.pc = "du_invalidate"],
                           RepoDeleteUser(db, proc[p].a), cache, heap)

\* invalidateUserCache(userID, email, username): the four cache.Delete calls
InvalidateUserCache(c, userID, email, username) ==
    CacheDelete(CacheDelete(CacheDelete(CacheDelete(c,
        Key(CacheKeyUserByID, userID)),
        Key(CacheKeyUserByEmail, email)),
        Key(CacheKeyUserByUsername, username)),
        Key(CacheKeyBalance, userID))

\* uc.invalidateUserCache(userID, user.Email, user.Username); return nil
DuInvalidate(p) ==
    /\ At(p, "du_invalidate")
    /\ LET u == heap[proc[p].gu]
       IN Commit(p, Returned(p, ErrNil), db,
                 InvalidateUserCache(cache, proc[p].a, u.email, u.username), heap)

\* ------------------------------------------------------------------ ResetPassword

StartResetPassword(p) ==
    \E tok \in ResetTokens, pw \in NewPasswords :
       BeginCall(p, [IdleProc EXCEPT !.pc = "rp_get", !.op = "ResetPassword",
                                     !.email = tok, !.password = pw, !.pre = Existing(db)])

\* uc.tokenRepo.GetPasswordResetToken, the expiry test, and
\* uc.getUserFromCache(CacheKeyUserByEmail + resetToken.Email)
RpGet(p) ==
    /\ At(p, "rp_get")
    /\ IF proc[p].email = "invalid"
       THEN Commit(p, Returned(p, ErrInvalidToken), db, cache, heap)
       ELSE IF proc[p].email = "expired"
       THEN Commit(p, Returned(p, ErrTokenExpired), db, cache, heap)
       ELSE LET r == GetUserFromCache(cache, Key(CacheKeyUserByEmail, proc[p].email))
            IN IF r # Nil
               THEN Commit(p, [proc[p] EXCEPT !.pc = "rp_update", !.gu = r], db, cache, heap)
               ELSE Commit(p, [proc[p] EXCEPT !.pc = "rp_repo"], db, cache, heap)

\* uc.userRepo.GetUserByEmail(ctx, resetToken.Email)
RpRepo(p) ==
    /\ At(p, "rp_repo")
    /\ \E fail \in BOOLEAN :
          IF fail \/ RepoGetUserByEmail(db, proc[p].email) = {}
          THEN Commit(p, [Returned(p, ErrResetUserNotFound) EXCEPT !.flt = @ \/ fail],
                      db, cache, heap)
          ELSE \E id \in RepoGetUserByEmail(db, proc[p].email) :
                  LET i == Alloc(heap)
                  IN Commit(p, [proc[p] EXCEPT !.pc = "rp_update", !.gu = i], db, cache,
                            HeapPut(heap, i, UserOf(id, db[id])))

\* user.Password = hashedPassword; uc.userRepo.UpdateUser(ctx, user)
RpUpdate(p) ==
    /\ At(p, "rp_update")
    /\ LET u == [heap[proc[p].gu] EXCEPT !.password = proc[p].password]
           h == HeapPut(heap, proc[p].gu, u)
       IN \E fail \in BOOLEAN :
             IF fail
             THEN Commit(p, [Returned(p, ErrRepo) EXCEPT !.flt = TRUE], db, cache, h)
             ELSE Commit(p, [proc[p] EXCEPT !.pc = "rp_invalidate"],
                         RepoUpdateUser(db, u), cache, h)

\* uc.invalidateUserCache(user.ID.Hex(), user.Email, user.Username);
\* _ = uc.sessionRepo.DeleteSessionsForUser(...), whose error is dropped;
\* return uc.tokenRepo.DeletePasswordResetToken(ctx, token)
RpInvalidate(p) ==
    /\ At(p, "rp_invalidate")
    /\ LET u == heap[proc[p].gu]
       IN \E kept \in BOOLEAN, fail \in BOOLEAN :
             LET s1 == IF kept THEN sessions ELSE DeleteSessionsForUser(sessions, u.id)
                 s2 == IF fail THEN s1
                       ELSE [s1 EXCEPT !.revoked =
                                @ \cup {t \in Tokens : sessions.issued[t] = u.id}]
             IN CommitAll(p, [Returned(p, IF fail THEN ErrRepo ELSE ErrNil)
                                EXCEPT !.flt = @ \/ fail],
                          db, InvalidateUserCache(cache, u.id, u.email, u.username), heap, s2)

\* ------------------------------------------------------------------ ForgotPassword

ErrSendEmail == [site |-> "smtp", msg |-> "send failure"]

\* ForgotPassword: the handler answers Success for nil and Internal "password
\* reset failed" for any error
ForgotPassword(p) ==
    LET c == proc[p]
    IN \/ \E e \in Emails :
             BeginCall(p, [IdleProc EXCEPT !.pc = "fp_get", !.op = "ForgotPassword",
                                           !.email = e, !.pre = Existing(db)])
       \* uc.getUserFromCache(CacheKeyUserByEmail + email)
       \/ /\ At(p, "fp_get")
          /\ UNCHANGED nops
          /\ LET r == GetUserFromCache(cache, Key(CacheKeyUserByEmail, c.email))
             IN IF r # Nil
                THEN Commit(p, [c EXCEPT !.pc = "fp_token", !.gu = r], db, cache, heap)
                ELSE Commit(p, [c EXCEPT !.pc = "fp_repo"], db, cache, heap)
       \* uc.userRepo.GetUserByEmail(ctx, email): return nil for any error;
       \* uc.setUserCache(CacheKeyUserByEmail+email, user)
       \/ /\ At(p, "fp_repo")
          /\ UNCHANGED nops
          /\ \E fail \in BOOLEAN :
                IF fail \/ RepoGetUserByEmail(db, c.email) = {}
                THEN Commit(p, [Returned(p, ErrNil) EXCEPT !.flt = fail], db, cache, heap)
                ELSE \E id \in RepoGetUserByEmail(db, c.email) :
                        LET i == Alloc(heap)
                        IN Commit(p, [c EXCEPT !.pc = "fp_token", !.gu = i], db,
                                  CacheSet(cache, Key(CacheKeyUserByEmail, c.email), UserEntry(i)),
                                  HeapPut(heap, i, UserOf(id, db[id])))
       \* uc.tokenRepo.CreatePasswordResetToken(ctx, resetToken)
       \/ /\ At(p, "fp_token")
          /\ UNCHANGED nops
          /\ \E fail \in BOOLEAN :
                IF fail THEN Commit(p, [Returned(p, ErrRepo) EXCEPT !.flt = TRUE], db, cache, heap)
                ELSE Commit(p, [c EXCEPT !.pc = "fp_send"], db, cache, heap)
       \* return uc.emailSender.SendEmail(user.Email, ...)
       \/ /\ At(p, "fp_send")
          /\ UNCHANGED nops
          /\ \E fail \in BOOLEAN :
                IF fail
                THEN Commit(p, [Returned(p, ErrSendEmail) EXCEPT !.flt = TRUE], db, cache, heap)
                ELSE Commit(p, [Returned(p, ErrNil) EXCEPT !.a = heap[c.gu].id], db, cache, heap)

\* ------------------------------------------------------------------ ChangePassword

StartChangePassword(p) ==
    \E a \in Users, cur \in Passwords, pw \in NewPasswords :
       BeginCall(p, [IdleProc EXCEPT !.pc = "gup_get", !.op = "ChangePassword", !.a = a,
                                     !.gid = a, !.ret = "cp_check", !.cur = cur,
                                     !.password = pw, !.pre = Existing(db)])

\* if err != nil return "user not found"; if !user.CheckPassword(currentPassword) ...
CpCheck(p) ==
    /\ At(p, "cp_check")
    /\ IF proc[p].gerr # ErrNil
       THEN Commit(p, Returned(p, ErrChangeUserNotFound), db, cache, heap)
       ELSE IF ~CheckPassword(heap[proc[p].gu], proc[p].cur)
       THEN Commit(p, Returned(p, ErrPasswordIncorrect), db, cache, heap)
       ELSE Commit(p, [proc[p] EXCEPT !.pc = "cp_update"], db, cache, heap)

\* user.Password = hashedPassword; uc.userRepo.UpdateUser(ctx, user)
CpUpdate(p) ==
    /\ At(p, "cp_update")
    /\ LET u == [heap[proc[p].gu] EXCEPT !.password = proc[p].password]
           h == HeapPut(heap, proc[p].gu, u)
       IN \E fail \in BOOLEAN :
             IF fail
             THEN Commit(p, [Returned(p, ErrRepo) EXCEPT !.flt = TRUE], db, cache, h)
             ELSE Commit(p, [proc[p] EXCEPT !.pc = "cp_invalidate"],
                         RepoUpdateUser(db, u), cache, h)

\* uc.invalidateUserCache(user.ID.Hex(), user.Email, user.Username); return nil
CpInvalidate(p) ==
    /\ At(p, "cp_invalidate")
    /\ LET u == heap[proc[p].gu]
       IN Commit(p, Returned(p, ErrNil), db,
                 InvalidateUserCache(cache, u.id, u.email, u.username), heap)

\* ------------------------------------------------------------------ UpdateUserProfile

StartUpdateUserProfile(p) ==
    \E a \in Users, n \in Usernames, e \in Emails :
       BeginCall(p, [IdleProc EXCEPT !.pc = "gup_get", !.op = "UpdateUserProfile", !.a = a,
                                     !.gid = a, !.ret = "up_email", !.username = n,
                                     !.email = e, !.pre = Existing(db)])

\* if err != nil return; oldEmail, oldUsername := ...; if email != user.Email:
\* uc.getUserFromCache(CacheKeyUserByEmail + email)
UpEmail(p) ==
    /\ At(p, "up_email")
    /\ IF proc[p].gerr # ErrNil
       THEN Commit(p, Returned(p, proc[p].gerr), db, cache, heap)
       ELSE LET u == heap[proc[p].gu]
                c == [proc[p] EXCEPT !.oldEmail = u.email, !.oldUsername = u.username]
            IN IF proc[p].email = u.email
               THEN Commit(p, [c EXCEPT !.pc = "up_username"], db, cache, heap)
               ELSE IF GetUserFromCache(cache, Key(CacheKeyUserByEmail, proc[p].email)) # Nil
               THEN Commit(p, Returned(p, ErrEmailInUse), db, cache, heap)
               ELSE Commit(p, [c EXCEPT !.pc = "up_email_repo"], db, cache, heap)

\* if _, err := uc.userRepo.GetUserByEmail(ctx, email); err == nil: in use
UpEmailRepo(p) ==
    /\ At(p, "up_email_repo")
    /\ \E fail \in BOOLEAN :
          IF ~fail /\ RepoGetUserByEmail(db, proc[p].email) # {}
          THEN Commit(p, Returned(p, ErrEmailInUse), db, cache, heap)
          ELSE Commit(p, [proc[p] EXCEPT !.pc = "up_username", !.flt = @ \/ fail],
                      db, cache, heap)

\* if username != user.Username: uc.getUserFromCache(CacheKeyUserByUsername + username)
UpUsername(p) ==
    /\ At(p, "up_username")
    /\ IF proc[p].username = heap[proc[p].gu].username
       THEN Commit(p, [proc[p] EXCEPT !.pc = "up_update"], db, cache, heap)
       ELSE IF GetUserFromCache(cache, Key(CacheKeyUserByUsername, proc[p].username)) # Nil
       THEN Commit(p, Returned(p, ErrUsernameInUse), db, cache, heap)
       ELSE Commit(p, [proc[p] EXCEPT !.pc = "up_username_repo"], db, cache, heap)

\* if _, err := uc.userRepo.GetUserByUsername(ctx, username); err == nil: in use
UpUsernameRepo(p) ==
    /\ At(p, "up_username_repo")
    /\ \E fail \in BOOLEAN :
          IF ~fail /\ RepoGetUserByUsername(db, proc[p].username) # {}
          THEN Commit(p, Returned(p, ErrUsernameInUse), db, cache, heap)
          ELSE Commit(p, [proc[p] EXCEPT !.pc = "up_update", !.flt = @ \/ fail],
                      db, cache, heap)

\* user.Username = username; user.Email = email; uc.userRepo.UpdateUser(ctx, user)
UpUpdate(p) ==
    /\ At(p, "up_update")
    /\ LET u == [heap[proc[p].gu] EXCEPT !.username = proc[p].username,
                                         !.email = proc[p].email]
           h == HeapPut(heap, proc[p].gu, u)
       IN \E fail \in BOOLEAN :
             IF fail
             THEN Commit(p, [Returned(p, ErrRepo) EXCEPT !.flt = TRUE], db, cache, h)
             ELSE Commit(p, [proc[p] EXCEPT !.pc = "up_cache"], RepoUpdateUser(db, u), cache, h)

\* the two deletes of the old keys and the three setUserCache calls; return user, nil
UpCache(p) ==
    /\ At(p, "up_cache")
    /\ LET c1 == CacheDelete(cache, Key(CacheKeyUserByEmail, proc[p].oldEmail))
           c2 == CacheDelete(c1, Key(CacheKeyUserByUsername, proc[p].oldUsername))
           c3 == CacheSet(c2, Key(CacheKeyUserByID, proc[p].a), UserEntry(proc[p].gu))
           c4 == CacheSet(c3, Key(CacheKeyUserByEmail, proc[p].email), UserEntry(proc[p].gu))
           c5 == CacheSet(c4, Key(CacheKeyUserByUsername, proc[p].username),
                          UserEntry(proc[p].gu))
       IN Commit(p, Returned(p, ErrNil), db, c5, heap)

\* ------------------------------------------------------------------ Register

\* Register.  A step is one repository call with the cache calls before it.
\* InsertOne gives the document an _id of its own (here any one not
\* in use) and leaves user.ID as it was.
Register(p) ==
    LET c == proc[p]
        free == {u \in Users : ~db[u].exists}
        fresh == {t \in Tokens : sessions.issued[t] = ""}
        running == {q \in Procs : proc[q].op = "Register" /\ proc[q].pc \notin {"idle", "done"}}
        errEmail == [site |-> "Register", msg |-> "email already exists"]
        errUsername == [site |-> "Register", msg |-> "username already exists"]
    IN \/ /\ Cardinality(free) > Cardinality(running)
          /\ Cardinality(fresh) > Cardinality(running)
          /\ \E n \in Usernames, e \in Emails, pw \in NewPasswords :
                BeginCall(p, [IdleProc EXCEPT !.pc = "rg_email", !.op = "Register",
                                              !.username = n, !.email = e, !.password = pw,
                                              !.pre = Existing(db)])
       \* getUserFromCache(CacheKeyUserByEmail + email); userRepo.GetUserByEmail
       \/ /\ At(p, "rg_email")
          /\ UNCHANGED nops
          /\ \E fail \in BOOLEAN :
                IF \/ GetUserFromCache(cache, Key(CacheKeyUserByEmail, c.email)) # Nil
                   \/ ~fail /\ RepoGetUserByEmail(db, c.email) # {}
                THEN Commit(p, Returned(p, errEmail), db, cache, heap)
                ELSE Commit(p, [c EXCEPT !.pc = "rg_username", !.flt = @ \/ fail],
                            db, cache, heap)
       \* getUserFromCache(CacheKeyUserByUsername + username); userRepo.GetUserByUsername
       \/ /\ At(p, "rg_username")
          /\ UNCHANGED nops
          /\ \E fail \in BOOLEAN :
                IF \/ GetUserFromCache(cache, Key(CacheKeyUserByUsername, c.username)) # Nil
                   \/ ~fail /\ RepoGetUserByUsername(db, c.username) # {}
                THEN Commit(p, Returned(p, errUsername), db, cache, heap)
                ELSE Commit(p, [c EXCEPT !.pc = "rg_count", !.flt = @ \/ fail],
                            db, cache, heap)
       \* if count, _ := uc.userRepo.GetUserCount(ctx); count == 0 { isAdmin = true }
       \/ /\ At(p, "rg_count")
          /\ UNCHANGED nops
          /\ \E fail \in BOOLEAN :
                Commit(p, [c EXCEPT !.pc = "rg_create", !.flt = @ \/ fail,
                                    !.isAdmin = fail \/ free = Users],
                       db, cache, heap)
       \* models.NewUser; uc.userRepo.CreateUser; the three setUserCache calls
       \/ /\ At(p, "rg_create")
          /\ UNCHANGED nops
          /\ \E fail \in BOOLEAN :
                IF fail
                THEN Commit(p, [Returned(p, ErrRepo) EXCEPT !.flt = TRUE], db, cache, heap)
                ELSE LET id == CHOOSE u \in free : TRUE
                         doc == Doc(c.username, c.email, c.password, 0, c.isAdmin)
                         i == Alloc(heap)
                         c1 == CacheSet(cache, Key(CacheKeyUserByID, ZeroID), UserEntry(i))
                         c2 == CacheSet(c1, Key(CacheKeyUserByEmail, c.email), UserEntry(i))
                         c3 == CacheSet(c2, Key(CacheKeyUserByUsername, c.username),
                                        UserEntry(i))
                     IN Commit(p, [c EXCEPT !.pc = "rg_session", !.gu = i, !.a = id],
                               [db EXCEPT ![id] = doc], c3,
                               HeapPut(heap, i, UserOf(ZeroID, doc)))
       \* token, err := uc.createSession(ctx, user.ID.Hex())
       \/ /\ At(p, "rg_session")
          /\ UNCHANGED nops
          /\ \E fail \in BOOLEAN, t \in fresh, slack \in {0, 1} :
                IF fail
                THEN Commit(p, [Returned(p, ErrRepo) EXCEPT !.flt = TRUE], db, cache, heap)
                ELSE CommitAll(p, [Returned(p, ErrNil) EXCEPT !.token = t, !.b = c.username],
                               db, cache, heap,
                               [CreateSession(sessions, t, heap[c.gu].id, slack)
                                  EXCEPT !.name[t] = c.username])

\* ------------------------------------------------------------------ Login

SessionErr ==
    [credentials |-> [site |-> "Login", msg |-> "invalid credentials"],
     session |-> [site |-> "ValidateSession:203", msg |-> "invalid session"],
     expired |-> [site |-> "ValidateSession", msg |-> "session expired"]]

\* Login.  The token its session will get has not been generated before.
Login(p) ==
    LET c == proc[p]
    IN \/ /\ \E t \in Tokens : sessions.issued[t] = ""
          /\ \E n \in Usernames, pw \in Passwords :
                BeginCall(p, [IdleProc EXCEPT !.pc = "lg_get", !.op = "Login", !.username = n,
                                              !.cur = pw, !.pre = Existing(db)])
       \* uc.getUserFromCache(CacheKeyUserByUsername + username)
       \/ /\ At(p, "lg_get")
          /\ UNCHANGED nops
          /\ LET r == GetUserFromCache(cache, Key(CacheKeyUserByUsername, c.username))
             IN IF r # Nil
                THEN Commit(p, [c EXCEPT !.pc = "lg_check", !.gu = r], db, cache, heap)
                ELSE Commit(p, [c EXCEPT !.pc = "lg_repo"], db, cache, heap)
       \* uc.userRepo.GetUserByUsername(ctx, username) and the three setUserCache calls
       \/ /\ At(p, "lg_repo")
          /\ UNCHANGED nops
          /\ \E fail \in BOOLEAN :
                IF fail \/ RepoGetUserByUsername(db, c.username) = {}
                THEN Commit(p, [Returned(p, SessionErr.credentials) EXCEPT !.flt = @ \/ fail],
                            db, cache, heap)
                ELSE \E id \in RepoGetUserByUsername(db, c.username) :
                        LET i == Alloc(heap)
                            u == UserOf(id, db[id])
                            c1 == CacheSet(cache, Key(CacheKeyUserByUsername, c.username),
                                           UserEntry(i))
                            c2 == CacheSet(c1, Key(CacheKeyUserByID, u.id), UserEntry(i))
                            c3 == CacheSet(c2, Key(CacheKeyUserByEmail, u.email), UserEntry(i))
                        IN Commit(p, [c EXCEPT !.pc = "lg_check", !.gu = i], db, c3,
                                  HeapPut(heap, i, u))
       \* if !user.CheckPassword(password) ...; token, err := uc.createSession(...)
       \/ /\ At(p, "lg_check")
          /\ UNCHANGED nops
          /\ LET u == heap[c.gu]
             IN IF ~CheckPassword(u, c.cur)
                THEN Commit(p, Returned(p, SessionErr.credentials), db, cache, heap)
                ELSE \E fail \in BOOLEAN, t \in Tokens, slack \in {0, 1} :
                        /\ sessions.issued[t] = ""
                        /\ IF fail
                           THEN Commit(p, [Returned(p, ErrRepo) EXCEPT !.flt = TRUE],
                                       db, cache, heap)
                           ELSE CommitAll(p, [Returned(p, ErrNil) EXCEPT !.a = u.id, !.token = t],
                                          db, cache, heap,
                                          CreateSession(sessions, t, u.id, slack))

\* ------------------------------------------------------------------ Logout

\* Logout, with a token that a Login or Register has returned
Logout(p) ==
    LET c == proc[p]
    IN \/ \E t \in {k \in Tokens : sessions.issued[k] # ""} :
             BeginCall(p, [IdleProc EXCEPT !.pc = "lo_cache", !.op = "Logout", !.token = t,
                                           !.pre = Existing(db)])
       \* uc.cache.Delete(CacheKeySession + token)
       \/ /\ At(p, "lo_cache")
          /\ UNCHANGED nops
          /\ CommitAll(p, [c EXCEPT !.pc = "lo_repo"], db, cache, heap,
                       SessionUncached(sessions, c.token))
       \* return uc.sessionRepo.DeleteSession(ctx, token)
       \/ /\ At(p, "lo_repo")
          /\ UNCHANGED nops
          /\ \E fail \in BOOLEAN :
                IF fail
                THEN Commit(p, [Returned(p, ErrRepo) EXCEPT !.flt = TRUE], db, cache, heap)
                ELSE CommitAll(p, Returned(p, ErrNil), db, cache, heap,
                               [sessions EXCEPT !.repo[c.token] = "",
                                                !.out = @ \cup {c.token}])

\* ------------------------------------------------------------------ ValidateSession

\* ValidateSession, up to its call of GetUserProfile and after it
ValidateSession(p) ==
    LET c == proc[p]
    IN \/ \E t \in Tokens :
             BeginCall(p, [IdleProc EXCEPT !.pc = "vs_get", !.op = "ValidateSession",
                                           !.token = t, !.pre = Existing(db),
                                           !.late = t \in sessions.out])
       \* uc.cache.Get(CacheKeySession + token); for an expired session the
       \* two deletes, the error of DeleteSession dropped; for another one
       \* uc.getUserFromCache(CacheKeyUserByID + session.UserID)
       \/ /\ At(p, "vs_get")
          /\ UNCHANGED nops
          /\ LET found == sessions.cache[c.token] # "" /\ now <= sessions.cexp[c.token]
                 userID == sessions.cache[c.token]
                 r == IF found THEN GetUserFromCache(cache, Key(CacheKeyUserByID, userID))
                      ELSE Nil
             IN IF found /\ sessions.exp[c.token] < now
                THEN \E kept \in BOOLEAN :
                        CommitAll(p, Returned(p, SessionErr.expired), db, cache, heap,
                                  IF kept THEN SessionUncached(sessions, c.token)
                                  ELSE [SessionUncached(sessions, c.token)
                                          EXCEPT !.repo[c.token] = ""])
                ELSE IF r # Nil
                THEN Commit(p, [Returned(p, ErrNil) EXCEPT !.a = userID,
                                                           !.b = heap[r].username],
                            db, cache, heap)
                ELSE Commit(p, [c EXCEPT !.pc = "vs_repo"], db, cache, heap)
       \* uc.sessionRepo.GetSession(ctx, token); for an expired session the two
       \* deletes, the error of DeleteSession dropped; for another one
       \* uc.cache.Set(CacheKeySession+token, session, time.Until(session.ExpiresAt))
       \* and uc.GetUserProfile(ctx, session.UserID)
       \/ /\ At(p, "vs_repo")
          /\ UNCHANGED nops
          /\ LET userID == sessions.repo[c.token]
             IN \E fail \in BOOLEAN :
                   IF fail \/ userID = ""
                   THEN Commit(p, [Returned(p, SessionErr.session) EXCEPT !.flt = @ \/ fail],
                               db, cache, heap)
                   ELSE IF sessions.exp[c.token] < now
                   THEN \E kept \in BOOLEAN :
                           CommitAll(p, Returned(p, SessionErr.expired), db, cache, heap,
                                     IF kept THEN SessionUncached(sessions, c.token)
                                     ELSE [SessionUncached(sessions, c.token)
                                             EXCEPT !.repo[c.token] = ""])
                   ELSE CommitAll(p, [c EXCEPT !.pc = "gup_get", !.a = userID, !.gid = userID,
                                               !.ret = "vs_ret"],
                                  db, cache, heap,
                                  [sessions EXCEPT !.cache[c.token] = userID,
                                                   !.cexp[c.token] = sessions.exp[c.token]])
       \* if err != nil return nil, err; return user, nil
       \/ /\ At(p, "vs_ret")
          /\ UNCHANGED nops
          /\ Commit(p, [Returned(p, c.gerr)
                          EXCEPT !.b = IF c.gerr = ErrNil THEN heap[c.gu].username ELSE "-"],
                    db, cache, heap)

\* ------------------------------------------------------------------ TransferBalance

\* a TransferBalance request among concurrent requests
StartTransferBalance(p) ==
    \E a \in Users, b \in Users, amt \in ConcurrentAmounts :
       Begin(p, "TransferBalance", a, b, amt, "gup_get", a, "tb_check", Existing(db))

\* a TransferBalance request that arrives when no other request is running
StartTransferBalanceAlone(p) ==
    /\ \A q \in Procs : Free(q)
    /\ \E a \in Users, b \in Users, amt \in Amounts :
          Begin(p, "TransferBalance", a, b, amt, "gup_get", a, "tb_check", Snapshot(db))

\* if err != nil return "sender not found"; if fromUser.Balance < amount return
\* "insufficient balance"; then GetUserProfile(ctx, toUserID)
TbCheck(p) ==
    /\ At(p, "tb_check")
    /\ IF proc[p].gerr # ErrNil
       THEN Commit(p, Returned(p, ErrSenderNotFound), db, cache, heap)
       ELSE IF heap[proc[p].gu].balance < proc[p].amt
            THEN Commit(p, Returned(p, ErrInsufficient449), db, cache, heap)
            ELSE Commit(p, [proc[p] EXCEPT !.pc = "gup_get", !.gid = proc[p].b,
                                           !.ret = "tb_debit",
                                           !.val = heap[proc[p].gu].balance],
                        db, cache, heap)

\* the debit written as read-modify-write on the copy of the sender that was read
TbDebitReadModifyWrite(p) ==
    /\ At(p, "tb_debit")
    /\ IF proc[p].gerr # ErrNil
       THEN Commit(p, Returned(p, ErrRecipientNotFound), db, cache, heap)
       ELSE \E fail \in BOOLEAN :
               IF fail
               THEN Commit(p, [Returned(p, ErrRepo) EXCEPT !.deb = "failed", !.flt = TRUE],
                           db, cache, heap)
               ELSE Commit(p, [proc[p] EXCEPT !.pc = "tb_credit",
                                  !.deb = IF db[proc[p].a].exists THEN "applied" ELSE "nomatch"],
                           IF db[proc[p].a].exists
                           THEN [db EXCEPT ![proc[p].a].balance = proc[p].val - proc[p].amt]
                           ELSE db,
                           cache, heap)

\* if err != nil return "recipient not found";
\* uc.userRepo.UpdateUserBalance(ctx, fromUserID, -amount)
TbDebit(p) ==
    /\ At(p, "tb_debit")
    /\ IF proc[p].gerr # ErrNil
       THEN Commit(p, Returned(p, ErrRecipientNotFound), db, cache, heap)
       ELSE \E fail \in BOOLEAN :
               IF fail
               THEN Commit(p, [Returned(p, ErrRepo) EXCEPT !.deb = "failed", !.flt = TRUE],
                           db, cache, heap)
               ELSE Commit(p, [proc[p] EXCEPT !.pc = "tb_credit",
                                  !.deb = IF db[proc[p].a].exists THEN "applied" ELSE "nomatch"],
                           RepoUpdateUserBalance(db, proc[p].a, -proc[p].amt), cache, heap)

\* uc.userRepo.UpdateUserBalance(ctx, toUserID, amount)
TbCredit(p) ==
    /\ At(p, "tb_credit")
    /\ \E fail \in BOOLEAN :
          IF fail
          THEN Commit(p, [proc[p] EXCEPT !.pc = "tb_rollback", !.cred = "failed",
                                         !.flt = TRUE],
                      db, cache, heap)
          ELSE Commit(p, [proc[p] EXCEPT !.pc = "tb_invalidate",
                             !.cred = IF db[proc[p].b].exists THEN "applied" ELSE "nomatch"],
                      RepoUpdateUserBalance(db, proc[p].b, proc[p].amt), cache, heap)

\* a rollback that credits the receiver instead of the sender
TbRollbackWrongAccount(p) ==
    /\ At(p, "tb_rollback")
    /\ \E fail \in BOOLEAN :
          IF fail
          THEN Commit(p, [Returned(p, ErrRepo) EXCEPT !.rb = "failed", !.flt = TRUE],
                      db, cache, heap)
          ELSE Commit(p, [Returned(p, ErrRepo) EXCEPT
                             !.rb = IF db[proc[p].b].exists THEN "applied" ELSE "nomatch"],
                      RepoUpdateUserBalance(db, proc[p].b, proc[p].amt), cache, heap)

\* _ = uc.userRepo.UpdateUserBalance(ctx, fromUserID, amount); return err
\* (err is the error of the credit, whatever the rollback returned)
TbRollback(p) ==
    /\ At(p, "tb_rollback")
    /\ \E fail \in BOOLEAN :
          IF fail
          THEN Commit(p, [Returned(p, ErrRepo) EXCEPT !.rb = "failed", !.flt = TRUE],
                      db, cache, heap)
          ELSE Commit(p, [Returned(p, ErrRepo) EXCEPT
                             !.rb = IF db[proc[p].a].exists THEN "applied" ELSE "nomatch"],
                      RepoUpdateUserBalance(db, proc[p].a, proc[p].amt), cache, heap)

\* an invalidation that forgets the user:id entries
TbInvalidatedBalanceOnly(c, from, to) ==
    CacheDelete(CacheDelete(c, Key(CacheKeyBalance, from)), Key(CacheKeyBalance, to))

\* the four deletes of a successful transfer
TbInvalidated(c, from, to) ==
    CacheDelete(CacheDelete(CacheDelete(CacheDelete(c,
        Key(CacheKeyBalance, from)),
        Key(CacheKeyBalance, to)),
        Key(CacheKeyUserByID, from)),
        Key(CacheKeyUserByID, to))

\* uc.cache.Delete x 4; return nil
TbInvalidate(p) ==
    /\ At(p, "tb_invalidate")
    /\ Commit(p, Returned(p, ErrNil), db, TbInvalidated(cache, proc[p].a, proc[p].b), heap)

\* UserHandler.TransferBalance: the status code sent for the use case's error
\* (errors.Is compares with the package's ErrInsufficientBalance value)
HandlerTransferStatus(err) ==
    IF err = ErrNil THEN "OK"
    ELSE IF err = ErrInsufficientBalance THEN "FailedPrecondition"
    ELSE "Internal"

\* ------------------------------------------------------------------ specification

\* ------------------------------------------------------------------ inventory service

\* The inventory service (InventoryUsecase): a go-cache of *inventory.Skin and
\* []*inventory.Skin in front of the MongoDB collection "skins".  The cached
\* messages are never written after they are stored, so an entry holds a value.
\* GetSkinsByOwner(id) and GetListedSkins() are the cached reads of ListSkins
\* under the keys list:<id>:false and list::true, and are reached as
\* ListSkins(id, false) and ListSkins("", true).

\* the _id values of the collection: s1 is stored, s2 is what InsertOne
\* generates for the first skin created
SkinObjectIDs == {"s1", "s2"}
\* the identifier strings of requests: 24 hex digits in either case, or not
SkinIdStrings == {"s1", "S1", "s2", "zz"}
OwnerIDs == {"o1", "o2"}
\* prices of requests (name, description, image, rarity and condition are
\* written and read together with the price)
Prices == {0, 2}

\* primitive.ObjectIDFromHex: hex.Decode reads upper and lower case digits, and
\* ObjectID.Hex() writes lower case; "" for a string that is not an ObjectID
ObjectIDFromHex(s) ==
    CASE s \in {"s1", "S1"} -> "s1"
      [] s = "s2" -> "s2"
      [] s \in {"t1", "T1"} -> "t1"
      [] s = "t2" -> "t2"
      [] s \in OwnerIDs \cup Users -> s
      [] OTHER -> ""

\* the nil *inventory.Skin
NilSkin == [id |-> "", owner |-> "", price |-> 0, is_listed |-> FALSE]

\* a models.Skin of the collection; rev counts the writes the document received
SkinDoc(ex, o, pr, l, rev) ==
    [exists |-> ex, owner |-> o, price |-> pr, is_listed |-> l, rev |-> rev]

\* Skin.ToProto of the document of _id id
SkinToProto(id, doc) ==
    [id |-> id, owner |-> doc.owner, price |-> doc.price, is_listed |-> doc.is_listed]

SkinErr ==
    [price |-> [site |-> "inventory.usecase", msg |-> "price must be positive"],
     skinID |-> [site |-> "inventory.repository", msg |-> "invalid skin ID format"],
     ownerID |-> [site |-> "inventory.repository", msg |-> "invalid owner ID format"],
     notFound |-> [site |-> "inventory.repository", msg |-> "skin not found"]]

\* fmt.Sprintf("skin:%s", id) and fmt.Sprintf("list:%s:%t", ownerID, isListed)
SkinKey(id) == <<"skin:", id, "">>
ListKey(ownerID, isListed) == <<"list:", ownerID, IF isListed THEN "true" ELSE "false">>

SkinKeys ==
    {SkinKey(id) : id \in SkinIdStrings}
    \cup {ListKey(o, l) : o \in OwnerIDs \cup {""}, l \in BOOLEAN}

\* what a key holds: nothing, a *inventory.Skin or a []*inventory.Skin
SkinEntry(kind, skin, list) == [kind |-> kind, skin |-> skin, list |-> list]

\* repo.GetSkin
RepoGetSkin(d, id) ==
    LET oid == ObjectIDFromHex(id)
    IN IF oid \notin SkinObjectIDs THEN [skin |-> NilSkin, err |-> SkinErr.skinID]
       ELSE IF ~d[oid].exists THEN [skin |-> NilSkin, err |-> SkinErr.notFound]
       ELSE [skin |-> SkinToProto(oid, d[oid]), err |-> ErrNil]

\* repo.ListSkins: the filter has owner_id for an owner given and is_listed
\* only if isListed is true
RepoListSkins(d, ownerID, isListed) ==
    {SkinToProto(i, d[i]) : i \in
        {j \in SkinObjectIDs : /\ d[j].exists
                               /\ ownerID # "" => d[j].owner = ObjectIDFromHex(ownerID)
                               /\ isListed => d[j].is_listed}}

\* invalidateListCaches
InvalidateListCaches(c, ownerID) ==
    [k \in SkinKeys |->
        IF k \in {ListKey(ownerID, TRUE), ListKey(ownerID, FALSE), ListKey("", TRUE)}
        THEN SkinEntry("none", NilSkin, {}) ELSE c[k]]

\* a worker of the inventory service: the request (op, id, owner, price,
\* listed), its number in the order of arrival (seq), the position in the
\* handler (pc), the skin in hand (skin), the skin read before the write
\* (old), and what the call returned (res, ret, list); flt records that a
\* repository call of the request failed in the driver, rev the count of
\* writes of the document after the request's own write, owned the owner
\* the document had when the request wrote it
IdleSkinProc ==
    [pc |-> "idle", op |-> "-", id |-> "", owner |-> "", price |-> 0, listed |-> FALSE,
     seq |-> 0, skin |-> NilSkin, old |-> NilSkin, res |-> NoRes, ret |-> NilSkin,
     list |-> {}, flt |-> FALSE, rev |-> 0, owned |-> ""]

SkinRunning(p) == skinProc[p].pc \notin {"idle", "done"}

\* a request arrives at worker p: the worker that has been free the longest
SkinBegin(p, op, id, owner, price, listed, pc) ==
    /\ ~SkinRunning(p)
    /\ \A q \in Procs : ~SkinRunning(q) => skinProc[p].seq <= skinProc[q].seq
    /\ \A q \in Procs : skinProc[p].seq = skinProc[q].seq => p <= q
    /\ skinOps' = skinOps + 1
    /\ skinProc' = [skinProc EXCEPT ![p] =
            [IdleSkinProc EXCEPT !.pc = pc, !.op = op, !.id = id, !.owner = owner,
                                 !.price = price, !.listed = listed, !.seq = skinOps + 1]]
    /\ UNCHANGED <<skins, skinCache>>

\* a step of the request of p
SkinStep(p, rec, d2, c2) ==
    /\ skinProc' = [skinProc EXCEPT ![p] = rec]
    /\ skins' = d2
    /\ skinCache' = c2
    /\ UNCHANGED skinOps

\* the call of p returns
SkinReturned(p, err, skin, list) ==
    [skinProc[p] EXCEPT !.pc = "done", !.res = err, !.ret = skin, !.list = list,
                        !.skin = NilSkin, !.old = NilSkin]

GetSkin(p) ==
    LET c == skinProc[p]
        key == SkinKey(c.id)
        r == RepoGetSkin(skins, c.id)
    IN \/ \E id \in SkinIdStrings : SkinBegin(p, "GetSkin", id, "", 0, FALSE, "gs_get")
       \/ /\ c.pc = "gs_get"
          /\ IF skinCache[key].kind = "skin"
             THEN SkinStep(p, SkinReturned(p, ErrNil, skinCache[key].skin, {}), skins, skinCache)
             ELSE SkinStep(p, [c EXCEPT !.pc = "gs_repo"], skins, skinCache)
       \/ /\ c.pc = "gs_repo"
          /\ \E fail \in BOOLEAN :
                IF fail THEN SkinStep(p, [SkinReturned(p, ErrRepo, NilSkin, {}) EXCEPT !.flt = TRUE],
                                      skins, skinCache)
                ELSE IF r.err # ErrNil THEN SkinStep(p, SkinReturned(p, r.err, NilSkin, {}), skins, skinCache)
                ELSE SkinStep(p, [c EXCEPT !.pc = "gs_set", !.skin = r.skin], skins, skinCache)
       \/ /\ c.pc = "gs_set"
          /\ SkinStep(p, SkinReturned(p, ErrNil, c.skin, {}), skins,
                      [skinCache EXCEPT ![key] = SkinEntry("skin", c.skin, {})])

ListSkins(p) ==
    LET c == skinProc[p]
        key == ListKey(c.owner, c.listed)
    IN \/ \E o \in OwnerIDs \cup {""}, l \in BOOLEAN :
             SkinBegin(p, "ListSkins", "", o, 0, l, "ls_get")
       \/ /\ c.pc = "ls_get"
          /\ IF skinCache[key].kind = "list"
             THEN SkinStep(p, SkinReturned(p, ErrNil, NilSkin, skinCache[key].list), skins, skinCache)
             ELSE SkinStep(p, [c EXCEPT !.pc = "ls_repo"], skins, skinCache)
       \/ /\ c.pc = "ls_repo"
          /\ \E fail \in BOOLEAN :
                IF fail THEN SkinStep(p, [SkinReturned(p, ErrRepo, NilSkin, {}) EXCEPT !.flt = TRUE],
                                      skins, skinCache)
                ELSE SkinStep(p, [c EXCEPT !.pc = "ls_set",
                                           !.list = RepoListSkins(skins, c.owner, c.listed)],
                              skins, skinCache)
       \/ /\ c.pc = "ls_set"
          /\ SkinStep(p, SkinReturned(p, ErrNil, NilSkin, c.list), skins,
                      [skinCache EXCEPT ![key] = SkinEntry("list", NilSkin, c.list)])

CreateSkin(p) ==
    LET c == skinProc[p]
        fresh == {i \in SkinObjectIDs : skins[i].rev = 0}
        oid == CHOOSE i \in fresh : TRUE
        doc == SkinDoc(TRUE, c.owner, c.price, c.listed, 1)
    IN \/ \E o \in OwnerIDs, pr \in Prices, l \in BOOLEAN :
             fresh # {} /\ SkinBegin(p, "CreateSkin", "", o, pr, l, "cs_repo")
       \/ /\ c.pc = "cs_repo"
          /\ \E fail \in BOOLEAN :
                IF c.price <= 0 THEN SkinStep(p, SkinReturned(p, SkinErr.price, NilSkin, {}), skins, skinCache)
                ELSE IF fail \/ fresh = {}
                THEN SkinStep(p, [SkinReturned(p, ErrRepo, NilSkin, {}) EXCEPT !.flt = TRUE],
                              skins, skinCache)
                ELSE SkinStep(p, [c EXCEPT !.pc = "cs_cache", !.skin = SkinToProto(oid, doc), !.rev = 1,
                                           !.owned = c.owner],
                              [skins EXCEPT ![oid] = doc], skinCache)
       \/ /\ c.pc = "cs_cache"
          /\ SkinStep(p, SkinReturned(p, ErrNil, c.skin, {}), skins,
                      InvalidateListCaches([skinCache EXCEPT ![SkinKey(c.skin.id)] =
                                                SkinEntry("skin", c.skin, {})], c.skin.owner))

UpdateSkin(p) ==
    LET c == skinProc[p]
        oid == ObjectIDFromHex(c.id)
        doc == [skins[oid] EXCEPT !.price = c.price, !.is_listed = c.listed, !.rev = @ + 1]
    IN \/ \E id \in SkinIdStrings, pr \in Prices, l \in BOOLEAN :
             SkinBegin(p, "UpdateSkin", id, "", pr, l, "us_repo")
       \/ /\ c.pc = "us_repo"
          /\ \E fail \in BOOLEAN :
                IF c.price <= 0 THEN SkinStep(p, SkinReturned(p, SkinErr.price, NilSkin, {}), skins, skinCache)
                ELSE IF oid \notin SkinObjectIDs
                THEN SkinStep(p, SkinReturned(p, SkinErr.skinID, NilSkin, {}), skins, skinCache)
                ELSE IF fail
                THEN SkinStep(p, [SkinReturned(p, ErrRepo, NilSkin, {}) EXCEPT !.flt = TRUE],
                              skins, skinCache)
                ELSE IF ~skins[oid].exists
                THEN SkinStep(p, SkinReturned(p, SkinErr.notFound, NilSkin, {}), skins, skinCache)
                ELSE SkinStep(p, [c EXCEPT !.pc = "us_cache", !.skin = SkinToProto(oid, doc),
                                           !.rev = doc.rev, !.owned = skins[oid].owner],
                              [skins EXCEPT ![oid] = doc], skinCache)
       \/ /\ c.pc = "us_cache"
          /\ SkinStep(p, SkinReturned(p, ErrNil, c.skin, {}), skins,
                      InvalidateListCaches([skinCache EXCEPT ![SkinKey(c.skin.id)] =
                                                SkinEntry("skin", c.skin, {})], c.skin.owner))

\* the read of the skin before a write: its error is dropped, the skin is nil
SkinBefore(p, pc) ==
    \E fail \in BOOLEAN :
        SkinStep(p, [skinProc[p] EXCEPT !.pc = pc,
                                        !.old = IF fail THEN NilSkin
                                                ELSE RepoGetSkin(skins, skinProc[p].id).skin,
                                        !.flt = fail],
                 skins, skinCache)

DeleteSkin(p) ==
    LET c == skinProc[p]
        oid == ObjectIDFromHex(c.id)
        c1 == [skinCache EXCEPT ![SkinKey(c.id)] = SkinEntry("none", NilSkin, {})]
    IN \/ \E id \in SkinIdStrings : SkinBegin(p, "DeleteSkin", id, "", 0, FALSE, "ds_get")
       \/ c.pc = "ds_get" /\ SkinBefore(p, "ds_repo")
       \/ /\ c.pc = "ds_repo"
          /\ \E fail \in BOOLEAN :
                IF oid \notin SkinObjectIDs
                THEN SkinStep(p, SkinReturned(p, SkinErr.skinID, NilSkin, {}), skins, skinCache)
                ELSE IF fail
                THEN SkinStep(p, [SkinReturned(p, ErrRepo, NilSkin, {}) EXCEPT !.flt = TRUE],
                              skins, skinCache)
                ELSE IF ~skins[oid].exists
                THEN SkinStep(p, SkinReturned(p, SkinErr.notFound, NilSkin, {}), skins, skinCache)
                ELSE SkinStep(p, [c EXCEPT !.pc = "ds_cache", !.rev = skins[oid].rev + 1,
                                           !.owned = skins[oid].owner],
                              [skins EXCEPT ![oid] = SkinDoc(FALSE, "", 0, FALSE, skins[oid].rev + 1)],
                              skinCache)
       \/ /\ c.pc = "ds_cache"
          /\ SkinStep(p, SkinReturned(p, ErrNil, NilSkin, {}), skins,
                      IF c.old # NilSkin THEN InvalidateListCaches(c1, c.old.owner) ELSE c1)

\* the read of the skin after a write, and the cache calls that follow it
SkinAfter(p, pcGet, pcCache, owners) ==
    LET c == skinProc[p]
        r == RepoGetSkin(skins, c.id)
        c1 == [skinCache EXCEPT ![SkinKey(c.id)] = SkinEntry("skin", c.skin, {})]
        c2 == IF owners[1] # "" THEN InvalidateListCaches(c1, owners[1]) ELSE c1
    IN \/ /\ c.pc = pcGet
          /\ \E fail \in BOOLEAN :
                IF fail THEN SkinStep(p, [SkinReturned(p, ErrRepo, NilSkin, {}) EXCEPT !.flt = TRUE],
                                      skins, skinCache)
                ELSE IF r.err # ErrNil THEN SkinStep(p, SkinReturned(p, r.err, NilSkin, {}), skins, skinCache)
                ELSE SkinStep(p, [c EXCEPT !.pc = pcCache, !.skin = r.skin], skins, skinCache)
       \/ /\ c.pc = pcCache
          /\ SkinStep(p, SkinReturned(p, ErrNil, c.skin, {}), skins,
                      InvalidateListCaches(c2, owners[2]))

ToggleListing(p) ==
    LET c == skinProc[p]
        oid == ObjectIDFromHex(c.id)
    IN \/ \E id \in SkinIdStrings, l \in BOOLEAN :
             SkinBegin(p, "ToggleListing", id, "", 0, l, "tl_repo")
       \/ /\ c.pc = "tl_repo"
          /\ \E fail \in BOOLEAN :
                IF oid \notin SkinObjectIDs
                THEN SkinStep(p, SkinReturned(p, SkinErr.skinID, NilSkin, {}), skins, skinCache)
                ELSE IF fail
                THEN SkinStep(p, [SkinReturned(p, ErrRepo, NilSkin, {}) EXCEPT !.flt = TRUE],
                              skins, skinCache)
                ELSE IF ~skins[oid].exists
                THEN SkinStep(p, [c EXCEPT !.pc = "tl_get"], skins, skinCache)
                ELSE SkinStep(p, [c EXCEPT !.pc = "tl_get", !.rev = skins[oid].rev + 1,
                                           !.owned = skins[oid].owner],
                              [skins EXCEPT ![oid].is_listed = c.listed, ![oid].rev = @ + 1],
                              skinCache)
       \/ SkinAfter(p, "tl_get", "tl_cache", <<"", c.skin.owner>>)

TransferOwnership(p) ==
    LET c == skinProc[p]
        oid == ObjectIDFromHex(c.id)
    IN \/ \E id \in SkinIdStrings, o \in OwnerIDs :
             SkinBegin(p, "TransferOwnership", id, o, 0, FALSE, "to_get")
       \/ c.pc = "to_get" /\ SkinBefore(p, "to_repo")
       \/ /\ c.pc = "to_repo"
          /\ \E fail \in BOOLEAN :
                IF oid \notin SkinObjectIDs
                THEN SkinStep(p, SkinReturned(p, SkinErr.skinID, NilSkin, {}), skins, skinCache)
                ELSE IF ObjectIDFromHex(c.owner) \notin OwnerIDs
                THEN SkinStep(p, SkinReturned(p, SkinErr.ownerID, NilSkin, {}), skins, skinCache)
                ELSE IF fail
                THEN SkinStep(p, [SkinReturned(p, ErrRepo, NilSkin, {}) EXCEPT !.flt = TRUE],
                              skins, skinCache)
                ELSE IF ~skins[oid].exists
                THEN SkinStep(p, [c EXCEPT !.pc = "to_reget"], skins, skinCache)
                ELSE SkinStep(p, [c EXCEPT !.pc = "to_reget", !.rev = skins[oid].rev + 1,
                                           !.owned = skins[oid].owner],
                              [skins EXCEPT ![oid].owner = ObjectIDFromHex(c.owner),
                                            ![oid].is_listed = FALSE, ![oid].rev = @ + 1],
                              skinCache)
       \/ SkinAfter(p, "to_reget", "to_cache", <<c.old.owner, c.owner>>)

SkinInit ==
    /\ skins = [i \in SkinObjectIDs |-> IF i = "s1" THEN SkinDoc(TRUE, "o1", 1, TRUE, 1)
                                        ELSE SkinDoc(FALSE, "", 0, FALSE, 0)]
    /\ skinCache = [k \in SkinKeys |-> SkinEntry("none", NilSkin, {})]
    /\ skinProc = [p \in Procs |-> IdleSkinProc]
    /\ skinOps = 0

\* ------------------------------------------------------------------ transaction service

\* The transaction service (transactionUsecase): a go-cache of
\* *models.Transaction, *TransactionListResponse and *TransactionStatsResponse
\* in front of the MongoDB collection "transactions".  An entry carries its
\* expiry, and cache.Get reads the clock (now, in minutes).  A cache key is
\* the pair of its prefix and of the parameters appended to it.  Requests
\* have type BUY, offset 0 and no dates.

\* the _id values of the collection: t1 is stored, t2 is what InsertOne
\* generates for the first transaction created
TxnObjectIDs == {"t1", "t2"}
\* the identifier strings of requests: 24 hex digits in either case, or not
TxnIdStrings == {"t1", "T1", "t2", "zz"}

\* the key prefixes: transactionCachePrefix, userTransactionsCachePrefix, ...
CachePrefix ==
    [transaction |-> "transaction:", userTransactions |-> "user_transactions:",
     skinTransactions |-> "skin_transactions:", statusTransactions |-> "status_transactions:",
     stats |-> "stats:", allTransactions |-> "all_transactions:"]

\* the TTL of an entry of a prefix, in minutes
transactionCacheTTL == 5
listCacheTTL == 2
statsCacheTTL == 10

\* the nil *models.Transaction
NilTxn == [id |-> "", buyer |-> "", seller |-> "", skin |-> "", amount |-> 0,
           status |-> "", desc |-> ""]

\* a models.Transaction of the collection
TxnDoc(id, b, s, sk, amt, st, desc) ==
    [id |-> id, buyer |-> b, seller |-> s, skin |-> sk, amount |-> amt,
     status |-> st, desc |-> desc]

\* what DeleteOne leaves: an _id is never generated twice
GoneTxn == [NilTxn EXCEPT !.desc = "deleted"]

\* what a read answers: a transaction, a list with its total count, or
\* statistics
TxnVal(tx, txs, total, amount, ok, bad) ==
    [tx |-> tx, txs |-> txs, total |-> total, amount |-> amount, ok |-> ok, bad |-> bad,
     avg |-> IF total = 0 THEN 0 ELSE amount \div total]

NoVal == TxnVal(NilTxn, <<>>, 0, 0, 0, 0)

TxnErr ==
    [invalid |-> [site |-> "transaction.usecase", msg |-> "invalid request"],
     id |-> [site |-> "transaction.usecase", msg |-> "invalid id"],
     noFields |-> [site |-> "transaction.usecase", msg |-> "no fields to update"],
     get |-> [site |-> "transaction.usecase", msg |-> "failed to get"],
     write |-> [site |-> "transaction.usecase", msg |-> "failed to write"],
     notDeleted |-> [site |-> "DeleteResponse", msg |-> "Success: false"]]

\* getCacheKey(prefix, id) and getListCacheKey(prefix, params...)
TxnKey(prefix, params) == <<prefix, params>>

\* the keys of the requests, and the keys the invalidation deletes
TxnKeys ==
    {TxnKey(CachePrefix.transaction, <<id>>) : id \in TxnIdStrings}
    \cup {TxnKey(CachePrefix.userTransactions, <<u, "PENDING", "BUY", "0", "0">>) : u \in Users}
    \cup {TxnKey(CachePrefix.statusTransactions, <<st, "0", "0">>) : st \in {"PENDING", "CANCELLED"}}
    \cup {TxnKey(CachePrefix.allTransactions, <<l, "0">>) : l \in {"0", "1"}}
    \cup {TxnKey(CachePrefix.stats, <<u, "", "">>) : u \in {"", "u1"}}
    \cup {TxnKey(CachePrefix.skinTransactions, <<sk>>) : sk \in SkinObjectIDs}
    \cup {TxnKey(CachePrefix.allTransactions, <<>>)}

\* the keys of a read handler
TxnKeysOf(op) ==
    LET prefix == CASE op = "GetTransaction" -> CachePrefix.transaction
                    [] op = "GetTransactionsByUser" -> CachePrefix.userTransactions
                    [] op = "GetTransactionsByStatus" -> CachePrefix.statusTransactions
                    [] op = "GetAllTransactions" -> CachePrefix.allTransactions
                    [] op = "GetTransactionStats" -> CachePrefix.stats
    IN {k \in TxnKeys : k[1] = prefix /\ k[2] # <<>>}

\* an entry: the kind of the value stored (the type of the type assertion),
\* the value, the time of expiry, and seen: the latest time at which the
\* value is known to have been the answer of the repository
TxnEntry(kind, val, exp, seen) == [kind |-> kind, val |-> val, exp |-> exp, seen |-> seen]

NoTxnEntry == TxnEntry("none", NoVal, 0, 0)

\* a sum that starts from 1
RECURSIVE TxnSumFromOne(_)
TxnSumFromOne(txs) == IF txs = <<>> THEN 1 ELSE Head(txs).amount + TxnSumFromOne(Tail(txs))

RECURSIVE TxnSum(_)
TxnSum(txs) == IF txs = <<>> THEN 0 ELSE Head(txs).amount + TxnSum(Tail(txs))

\* a count that leaves the status out
TxnCountAny(txs, sts) == Len(txs)

\* the number of the txs that have a status of sts
TxnCount(txs, sts) == Cardinality({i \in DOMAIN txs : txs[i].status \in sts})

\* the repository call of the read with key k: GetTransactionByID,
\* GetTransactionsByUserID, GetTransactionsByStatus, GetAllTransactions,
\* GetTransactionStats; documents come newest first (sort by created_at,
\* -1), and a limit above 0 cuts the list but not the count
TxnAnswer(d, k) ==
    LET a == k[2]
        oid == ObjectIDFromHex(a[1])
        TxnNewestFirst(dd, match(_)) ==
            (IF dd["t2"].id # "" /\ match(dd["t2"]) THEN <<dd["t2"]>> ELSE <<>>)
            \o (IF dd["t1"].id # "" /\ match(dd["t1"]) THEN <<dd["t1"]>> ELSE <<>>)
        TxnLimit(txs, l) == IF l = "1" /\ Len(txs) > 1 THEN SubSeq(txs, 1, 1) ELSE txs
        list(txs, l) == [err |-> ErrNil, val |-> TxnVal(NilTxn, TxnLimit(txs, l), Len(txs), 0, 0, 0)]
        stats(txs) == [err |-> ErrNil,
                       val |-> TxnVal(NilTxn, <<>>, Len(txs), TxnSum(txs),
                                      TxnCount(txs, {"COMPLETED"}),
                                      TxnCount(txs, {"FAILED", "CANCELLED"}))]
    IN CASE k[1] = CachePrefix.transaction ->
                IF oid \notin TxnObjectIDs THEN [err |-> TxnErr.id, val |-> NoVal]
                ELSE IF d[oid].id = "" THEN [err |-> TxnErr.get, val |-> NoVal]
                ELSE [err |-> ErrNil, val |-> TxnVal(d[oid], <<>>, 0, 0, 0, 0)]
         [] k[1] = CachePrefix.userTransactions ->
                IF ObjectIDFromHex(a[1]) \notin Users THEN [err |-> TxnErr.id, val |-> NoVal]
                ELSE list(TxnNewestFirst(d, LAMBDA t : (t.buyer = a[1] \/ t.seller = a[1])
                                                        /\ t.status = a[2]), a[4])
         [] k[1] = CachePrefix.statusTransactions ->
                list(TxnNewestFirst(d, LAMBDA t : t.status = a[1]), a[2])
         [] k[1] = CachePrefix.allTransactions ->
                list(TxnNewestFirst(d, LAMBDA t : TRUE), a[1])
         [] k[1] = CachePrefix.stats ->
                IF a[1] = "" THEN stats(TxnNewestFirst(d, LAMBDA t : TRUE))
                ELSE IF ObjectIDFromHex(a[1]) \notin Users THEN [err |-> TxnErr.id, val |-> NoVal]
                ELSE stats(TxnNewestFirst(d, LAMBDA t : t.buyer = a[1] \/ t.seller = a[1]))

\* entries that are stored already expired
TxnTTLNone(k) == -1

\* the TTL the read with key k stores its answer with
TxnTTL(k) ==
    CASE k[1] = CachePrefix.transaction -> transactionCacheTTL
      [] k[1] = CachePrefix.stats -> statsCacheTTL
      [] OTHER -> listCacheTTL

\* a read that accepts whatever the key holds
TxnKindStored(k) == txnCache[k].kind

\* the kind of value the read with key k stores and accepts
TxnKind(k) ==
    CASE k[1] = CachePrefix.transaction -> "transaction"
      [] k[1] = CachePrefix.stats -> "stats"
      [] OTHER -> "list"

\* the reads of the use case without a cache (GetTransaction,
\* GetTransactionsByUser, GetTransactionsByStatus, GetTransactionStats,
\* GetAllTransactions): the checks of the request, the repository call and
\* the response built from its result, as in the cached use case after a miss
UncachedRead(d, k) == TxnAnswer(d, k)

\* an invalidation that leaves the statistics in the cache
InvalidateKeepingStats(c, transactionID, skinID, t) ==
    [k \in TxnKeys |->
        IF \/ k = TxnKey(CachePrefix.transaction, <<transactionID>>)
           \/ c[k].exp < t
           \/ k = TxnKey(CachePrefix.skinTransactions, <<skinID>>)
           \/ k = TxnKey(CachePrefix.allTransactions, <<>>)
        THEN NoTxnEntry ELSE c[k]]

\* invalidateTransactionCaches(transactionID, userID, skinID) with
\* clearStatsCaches: the user is given and never used
InvalidateTransactionCaches(c, transactionID, skinID, t) ==
    [k \in TxnKeys |->
        IF \/ k = TxnKey(CachePrefix.transaction, <<transactionID>>)
           \/ c[k].exp < t
           \/ k = TxnKey(CachePrefix.skinTransactions, <<skinID>>)
           \/ k = TxnKey(CachePrefix.allTransactions, <<>>)
           \/ k[1] = CachePrefix.stats
        THEN NoTxnEntry ELSE c[k]]

\* a worker of the transaction service: the request (op, key of a read, id,
\* user, status, desc, amount), its number in the order of arrival (seq), the
\* position in the handler (pc), the value and the transaction in hand (val,
\* tx), and what the call returned (res, ret); hit: the read returned a
\* cached value; flt: a repository call failed in the driver; seen: see
\* TxnEntry; at: the time of the return; was: the transaction before the
\* write of the request
IdleTxnProc ==
    [pc |-> "idle", op |-> "-", key |-> TxnKey("", <<>>), id |-> "", user |-> "",
     status |-> 0, desc |-> "", amount |-> 0, seq |-> 0, val |-> NoVal, tx |-> NilTxn,
     res |-> NoRes, ret |-> NoVal, hit |-> FALSE, flt |-> FALSE, seen |-> 0, at |-> 0,
     was |-> NilTxn, params |-> <<>>]

TxnRunning(p) == txnProc[p].pc \notin {"idle", "done"}

\* a request arrives at worker p: the worker that has been free the longest
TxnBegin(p, rec) ==
    /\ ~TxnRunning(p)
    /\ \A q \in Procs : ~TxnRunning(q) => txnProc[p].seq <= txnProc[q].seq
    /\ \A q \in Procs : txnProc[p].seq = txnProc[q].seq => p <= q
    /\ txnOps' = txnOps + 1
    /\ txnProc' = [txnProc EXCEPT ![p] = [rec EXCEPT !.seq = txnOps + 1]]
    /\ UNCHANGED <<txns, txnCache, now>>

\* a step that empties the cache when a repository call has failed
TxnStepDropping(p, rec, d2, c2) ==
    /\ txnProc' = [txnProc EXCEPT ![p] = rec]
    /\ txns' = d2
    /\ txnCache' = IF rec.flt THEN [k \in TxnKeys |-> NoTxnEntry] ELSE c2
    /\ UNCHANGED <<txnOps, now>>

\* a step of the request of p; the values that a write outdates were last
\* the answer of the repository now
TxnStep(p, rec, d2, c2) ==
    LET TxnOutdated(d, dd, k, v) == v = TxnAnswer(d, k).val /\ v # TxnAnswer(dd, k).val IN
    /\ txnProc' = [q \in Procs |->
            IF q = p THEN rec
            ELSE IF d2 # txns /\ txnProc[q].pc = "rd_set"
                    /\ TxnOutdated(txns, d2, txnProc[q].key, txnProc[q].val)
            THEN [txnProc[q] EXCEPT !.seen = now]
            ELSE txnProc[q]]
    /\ txns' = d2
    /\ txnCache' = [k \in TxnKeys |->
            IF d2 # txns /\ c2[k].kind # "none" /\ TxnOutdated(txns, d2, k, c2[k].val)
            THEN [c2[k] EXCEPT !.seen = now] ELSE c2[k]]
    /\ UNCHANGED <<txnOps, now>>

\* the call of p returns
TxnReturned(p, err, val) ==
    [txnProc[p] EXCEPT !.pc = "done", !.res = err, !.ret = val, !.val = NoVal, !.tx = NilTxn,
                       !.at = now]

\* GetTransaction, GetTransactionsByUser, GetTransactionsByStatus,
\* GetAllTransactions, GetTransactionStats: the cached read op
TxnRead(p, op) ==
    LET c == txnProc[p]
        e == txnCache[c.key]
        r == TxnAnswer(txns, c.key)
    IN \/ \E k \in TxnKeysOf(op) :
             TxnBegin(p, [IdleTxnProc EXCEPT !.pc = "rd_get", !.op = op, !.key = k])
       \/ /\ c.pc = "rd_get" /\ c.op = op
          /\ IF e.kind = TxnKind(c.key) /\ now <= e.exp
             THEN TxnStep(p, [TxnReturned(p, ErrNil, e.val) EXCEPT
                                 !.hit = TRUE, !.seen = IF e.val = r.val THEN now ELSE e.seen],
                          txns, txnCache)
             ELSE IF r.err = TxnErr.id THEN TxnStep(p, TxnReturned(p, r.err, NoVal), txns, txnCache)
             ELSE TxnStep(p, [c EXCEPT !.pc = "rd_repo"], txns, txnCache)
       \/ /\ c.pc = "rd_repo" /\ c.op = op
          /\ \E fail \in BOOLEAN :
                IF fail THEN TxnStep(p, [TxnReturned(p, TxnErr.get, NoVal) EXCEPT !.flt = TRUE],
                                     txns, txnCache)
                ELSE IF r.err # ErrNil THEN TxnStep(p, TxnReturned(p, r.err, NoVal), txns, txnCache)
                ELSE TxnStep(p, [c EXCEPT !.pc = "rd_set", !.val = r.val, !.seen = now],
                             txns, txnCache)
       \/ /\ c.pc = "rd_set" /\ c.op = op
          /\ TxnStep(p, TxnReturned(p, ErrNil, c.val), txns,
                     [txnCache EXCEPT ![c.key] =
                          TxnEntry(TxnKind(c.key), c.val, now + TxnTTL(c.key), c.seen)])

\* the cache calls after the write of p, and its return
TxnInvalidate(p, id) ==
    TxnStep(p, TxnReturned(p, ErrNil, TxnVal(txnProc[p].tx, <<>>, 0, 0, 0, 0)), txns,
            InvalidateTransactionCaches(txnCache, id, txnProc[p].tx.skin, now))

\* CreateTransaction and ProcessPurchase
TxnCreate(p, op) ==
    LET c == txnProc[p]
        fresh == {i \in TxnObjectIDs : txns[i] = NilTxn}
        oid == CHOOSE i \in fresh : TRUE
        tx == TxnDoc(oid, c.user, "", "s1", c.amount, "PENDING", "")
    IN \/ \E u \in Users, amt \in IF op = "ProcessPurchase" THEN {100} ELSE {0, 100} :
             /\ fresh # {}
             /\ \A q \in Procs : txnProc[q].pc # "cr_repo"
             /\ TxnBegin(p, [IdleTxnProc EXCEPT !.pc = "cr_repo", !.op = op, !.user = u,
                                                !.amount = amt])
       \/ /\ c.pc = "cr_repo" /\ c.op = op
          /\ \E fail \in BOOLEAN :
                IF c.amount <= 0
                THEN TxnStep(p, TxnReturned(p, TxnErr.invalid, NoVal), txns, txnCache)
                ELSE IF fail
                THEN TxnStep(p, [TxnReturned(p, TxnErr.write, NoVal) EXCEPT !.flt = TRUE],
                             txns, txnCache)
                ELSE TxnStep(p, [c EXCEPT !.pc = "cr_inv", !.tx = tx],
                             [txns EXCEPT ![oid] = tx], txnCache)
       \/ c.pc = "cr_inv" /\ c.op = op /\ TxnInvalidate(p, c.tx.id)

\* the numbers of the enum TransactionStatus of the requests
TransactionStatus == [PENDING |-> 0, COMPLETED |-> 1, FAILED |-> 2, CANCELLED |-> 3]

\* models.StatusFromProto: the switch over the four names, default StatusPending
StatusFromProto(status) ==
    CASE status = TransactionStatus.PENDING -> "PENDING"
      [] status = TransactionStatus.COMPLETED -> "COMPLETED"
      [] status = TransactionStatus.FAILED -> "FAILED"
      [] status = TransactionStatus.CANCELLED -> "CANCELLED"
      [] OTHER -> "PENDING"

\* UpdateTransaction and CancelTransaction, of requests with a status and a
\* description (a reason) out of reqs
TxnUpdateOf(p, op, reqs) ==
    LET c == txnProc[p]
        oid == ObjectIDFromHex(c.id)
        st == IF op = "CancelTransaction" THEN "CANCELLED"
              ELSE IF c.status # TransactionStatus.PENDING THEN StatusFromProto(c.status)
              ELSE txns[oid].status
        tx == [txns[oid] EXCEPT !.status = st,
                                !.desc = IF c.desc = "" THEN @
                                         ELSE IF op = "CancelTransaction"
                                         THEN "Cancelled: " \o c.desc ELSE c.desc]
    IN \/ \E id \in TxnIdStrings, u \in reqs :
             /\ TxnBegin(p, [IdleTxnProc EXCEPT !.pc = "up_repo", !.op = op, !.id = id,
                                                !.status = u[1], !.desc = u[2]])
       \/ /\ c.pc = "up_repo" /\ c.op = op
          /\ \E fail \in BOOLEAN :
                IF oid \notin TxnObjectIDs
                THEN TxnStep(p, TxnReturned(p, TxnErr.id, NoVal), txns, txnCache)
                ELSE IF op = "UpdateTransaction" /\ c.status = TransactionStatus.PENDING /\ c.desc = ""
                THEN TxnStep(p, TxnReturned(p, TxnErr.noFields, NoVal), txns, txnCache)
                ELSE IF fail
                THEN TxnStep(p, [TxnReturned(p, TxnErr.write, NoVal) EXCEPT !.flt = TRUE],
                             txns, txnCache)
                ELSE IF txns[oid].id = ""
                THEN TxnStep(p, TxnReturned(p, TxnErr.write, NoVal), txns, txnCache)
                ELSE TxnStep(p, [c EXCEPT !.pc = "up_inv", !.tx = tx, !.was = txns[oid]],
                             [txns EXCEPT ![oid] = tx], txnCache)
       \/ c.pc = "up_inv" /\ c.op = op /\ TxnInvalidate(p, c.id)

\* UpdateTransaction and CancelTransaction
TxnUpdate(p, op) ==
    TxnUpdateOf(p, op, IF op = "CancelTransaction" THEN {<<TransactionStatus.PENDING, "">>}
                       ELSE {<<TransactionStatus.PENDING, "">>, <<TransactionStatus.PENDING, "d">>,
                             <<TransactionStatus.COMPLETED, "">>})

DeleteTransaction(p) ==
    LET c == txnProc[p]
        oid == ObjectIDFromHex(c.id)
    IN \/ \E id \in TxnIdStrings :
             TxnBegin(p, [IdleTxnProc EXCEPT !.pc = "dl_get", !.op = "DeleteTransaction", !.id = id])
       \/ /\ c.pc = "dl_get"
          /\ \E fail \in BOOLEAN :
                IF oid \notin TxnObjectIDs
                THEN TxnStep(p, TxnReturned(p, TxnErr.id, NoVal), txns, txnCache)
                ELSE IF fail \/ txns[oid].id = ""
                THEN TxnStep(p, [TxnReturned(p, TxnErr.notDeleted, NoVal) EXCEPT !.flt = fail],
                             txns, txnCache)
                ELSE TxnStep(p, [c EXCEPT !.pc = "dl_repo", !.tx = txns[oid]], txns, txnCache)
       \/ /\ c.pc = "dl_repo"
          /\ \E fail \in BOOLEAN :
                IF fail
                THEN TxnStep(p, [TxnReturned(p, TxnErr.notDeleted, NoVal) EXCEPT !.flt = TRUE],
                             txns, txnCache)
                ELSE TxnStep(p, [c EXCEPT !.pc = "dl_inv", !.was = txns[oid]],
                             [txns EXCEPT ![oid] = GoneTxn], txnCache)
       \/ c.pc = "dl_inv" /\ TxnInvalidate(p, c.id)

\* a minute passes
Tick == now' = now + 1 /\ UNCHANGED <<txns, txnCache, txnProc, txnOps>>

TxnInit ==
    /\ txns = [i \in TxnObjectIDs |-> IF i = "t1" THEN TxnDoc("t1", "u1", "u2", "s1", 100, "PENDING", "")
                                      ELSE NilTxn]
    /\ txnCache = [k \in TxnKeys |-> NoTxnEntry]
    /\ txnProc = [p \in Procs |-> IdleTxnProc]
    /\ txnOps = 0
    /\ now = 0

\* ------------------------------------------------------------------ specifications

InitDb ==
    [u \in Users |-> IF u = "u1" THEN Doc("n1", "e1", "h0", 2, TRUE)
                     ELSE Doc("n2", "e2", "h0", 0, FALSE)]

\* the transfers that returned success: what they credited less what they
\* debited, whether every returned transfer succeeded, and whether a request
\* arrived while another was running
NoLedger == [net |-> [u \in Users |-> 0], clean |-> TRUE, overlap |-> FALSE]

Booked(l, a, b, amt) ==
    LET n1 == [l.net EXCEPT ![a] = @ - amt]
    IN [l EXCEPT !.net = [n1 EXCEPT ![b] = @ + amt]]

Ledger(p) ==
    IF proc[p].pc = "idle" /\ proc'[p].pc # "idle"
    THEN ledger' = [ledger EXCEPT !.overlap = @ \/ \E q \in Procs : ~Free(q)]
    ELSE IF proc[p].pc # "done" /\ proc'[p].pc = "done"
    THEN ledger' = IF proc'[p].res = ErrNil /\ ledger.clean
                   THEN Booked(ledger, proc[p].a, proc[p].b, proc[p].amt)
                   ELSE [NoLedger EXCEPT !.clean = FALSE, !.overlap = ledger.overlap]
    ELSE UNCHANGED ledger

Init ==
    /\ db = InitDb
    /\ cache = [k \in Keys |-> NoEntry]
    /\ heap = <<>>
    /\ proc = [p \in Procs |-> IdleProc]
    /\ nops = 0
    /\ ledger = NoLedger
    /\ sessions = NoSessions
    /\ SkinInit
    /\ TxnInit

\* requests of any number of workers, interleaved
Next ==
    \/ \E p \in Procs : nops < MaxOps /\ StartGetBalance(p) /\ UNCHANGED <<ledger, inventorySvc, transactionSvc>>
    \/ \E p \in Procs : nops < MaxOps /\ StartDeleteUser(p) /\ UNCHANGED <<ledger, inventorySvc, transactionSvc>>
    \/ \E p \in Procs : nops < MaxOps /\ StartTransferBalance(p) /\ UNCHANGED <<ledger, inventorySvc, transactionSvc>>
    \/ \E p \in Procs : GupGet(p) /\ UNCHANGED <<nops, ledger, inventorySvc, transactionSvc>>
    \/ \E p \in Procs : GupRepo(p) /\ UNCHANGED <<nops, ledger, inventorySvc, transactionSvc>>
    \/ \E p \in Procs : GupSet(p) /\ UNCHANGED <<nops, ledger, inventorySvc, transactionSvc>>
    \/ \E p \in Procs : GbGet(p) /\ UNCHANGED <<nops, ledger, inventorySvc, transactionSvc>>
    \/ \E p \in Procs : GbSet(p) /\ UNCHANGED <<nops, ledger, inventorySvc, transactionSvc>>
    \/ \E p \in Procs : DuRepo(p) /\ UNCHANGED <<nops, ledger, inventorySvc, transactionSvc>>
    \/ \E p \in Procs : DuInvalidate(p) /\ UNCHANGED <<nops, ledger, inventorySvc, transactionSvc>>
    \/ \E p \in Procs : TbCheck(p) /\ UNCHANGED <<nops, ledger, inventorySvc, transactionSvc>>
    \/ \E p \in Procs : TbDebit(p) /\ UNCHANGED <<nops, ledger, inventorySvc, transactionSvc>>
    \/ \E p \in Procs : TbCredit(p) /\ UNCHANGED <<nops, ledger, inventorySvc, transactionSvc>>
    \/ \E p \in Procs : TbRollback(p) /\ UNCHANGED <<nops, ledger, inventorySvc, transactionSvc>>
    \/ \E p \in Procs : TbInvalidate(p) /\ UNCHANGED <<nops, ledger, inventorySvc, transactionSvc>>
    \/ \E p \in Procs : Exit(p) /\ UNCHANGED <<nops, ledger, inventorySvc, transactionSvc>>

Spec == Init /\ [][Next]_vars

\* one request at a time
NextSeq ==
    \/ \E p \in Procs : nops < MaxOps /\ \A q \in Procs : Free(q) /\ StartGetBalance(p) /\ UNCHANGED <<ledger, inventorySvc, transactionSvc>>
    \/ \E p \in Procs : nops < MaxOps /\ \A q \in Procs : Free(q) /\ StartDeleteUser(p) /\ UNCHANGED <<ledger, inventorySvc, transactionSvc>>
    \/ \E p \in Procs : nops < MaxOps /\ \A q \in Procs : Free(q) /\ StartUpdateBalance(p) /\ UNCHANGED <<ledger, inventorySvc, transactionSvc>>
    \/ \E p \in Procs : nops < MaxOps /\ \A q \in Procs : Free(q) /\ StartTransferBalanceAlone(p) /\ UNCHANGED <<ledger, inventorySvc, transactionSvc>>
    \/ \E p \in Procs : GupGet(p) /\ UNCHANGED <<nops, ledger, inventorySvc, transactionSvc>>
    \/ \E p \in Procs : GupRepo(p) /\ UNCHANGED <<nops, ledger, inventorySvc, transactionSvc>>
    \/ \E p \in Procs : GupSet(p) /\ UNCHANGED <<nops, ledger, inventorySvc, transactionSvc>>
    \/ \E p \in Procs : GbGet(p) /\ UNCHANGED <<nops, ledger, inventorySvc, transactionSvc>>
    \/ \E p \in Procs : GbSet(p) /\ UNCHANGED <<nops, ledger, inventorySvc, transactionSvc>>
    \/ \E p \in Procs : UbRepo(p) /\ UNCHANGED <<nops, ledger, inventorySvc, transactionSvc>>
    \/ \E p \in Procs : UbInvalidate(p) /\ UNCHANGED <<nops, ledger, inventorySvc, transactionSvc>>
    \/ \E p \in Procs : DuRepo(p) /\ UNCHANGED <<nops, ledger, inventorySvc, transactionSvc>>
    \/ \E p \in Procs : DuInvalidate(p) /\ UNCHANGED <<nops, ledger, inventorySvc, transactionSvc>>
    \/ \E p \in Procs : TbCheck(p) /\ UNCHANGED <<nops, ledger, inventorySvc, transactionSvc>>
    \/ \E p \in Procs : TbDebit(p) /\ UNCHANGED <<nops, ledger, inventorySvc, transactionSvc>>
    \/ \E p \in Procs : TbCredit(p) /\ UNCHANGED <<nops, ledger, inventorySvc, transactionSvc>>
    \/ \E p \in Procs : TbRollback(p) /\ UNCHANGED <<nops, ledger, inventorySvc, transactionSvc>>
    \/ \E p \in Procs : TbInvalidate(p) /\ UNCHANGED <<nops, ledger, inventorySvc, transactionSvc>>
    \/ \E p \in Procs : Exit(p) /\ UNCHANGED <<nops, ledger, inventorySvc, transactionSvc>>

SpecSeq == Init /\ [][NextSeq]_vars

\* the balances an account may hold: the values of the format up to a little
\* above the first power of two where sums are rounded
Balances == {b \in 0..(Pow2(MantBits) + 4) : Float64Round(b) = b}

InitBalances ==
    /\ db \in {[InitDb EXCEPT !["u1"].balance = b] : b \in Balances}
    /\ cache = [k \in Keys |-> NoEntry]
    /\ heap = <<>>
    /\ proc = [p \in Procs |-> IdleProc]
    /\ nops = 0
    /\ ledger = NoLedger
    /\ sessions = NoSessions
    /\ SkinInit
    /\ TxnInit

\* transfers, one at a time, between accounts of any balance
NextTransferSeq ==
    \/ \E p \in Procs : nops < MaxTransferOps /\ StartTransferBalanceAlone(p) /\ UNCHANGED <<ledger, inventorySvc, transactionSvc>>
    \/ \E p \in Procs : GupGet(p) /\ UNCHANGED <<nops, ledger, inventorySvc, transactionSvc>>
    \/ \E p \in Procs : GupRepo(p) /\ UNCHANGED <<nops, ledger, inventorySvc, transactionSvc>>
    \/ \E p \in Procs : GupSet(p) /\ UNCHANGED <<nops, ledger, inventorySvc, transactionSvc>>
    \/ \E p \in Procs : TbCheck(p) /\ UNCHANGED <<nops, ledger, inventorySvc, transactionSvc>>
    \/ \E p \in Procs : TbDebit(p) /\ UNCHANGED <<nops, ledger, inventorySvc, transactionSvc>>
    \/ \E p \in Procs : TbCredit(p) /\ UNCHANGED <<nops, ledger, inventorySvc, transactionSvc>>
    \/ \E p \in Procs : TbRollback(p) /\ UNCHANGED <<nops, ledger, inventorySvc, transactionSvc>>
    \/ \E p \in Procs : TbInvalidate(p) /\ UNCHANGED <<nops, ledger, inventorySvc, transactionSvc>>
    \/ \E p \in Procs : Exit(p) /\ UNCHANGED <<nops, ledger, inventorySvc, transactionSvc>>

SpecTransferSeq == InitBalances /\ [][NextTransferSeq]_vars

\* concurrent transfers and nothing else
NextTransfers ==
    \/ \E p \in Procs : nops < MaxOps /\ StartTransferBalance(p) /\ Ledger(p) /\ UNCHANGED <<inventorySvc, transactionSvc>>
    \/ \E p \in Procs : GupGet(p) /\ Ledger(p) /\ UNCHANGED <<nops, inventorySvc, transactionSvc>>
    \/ \E p \in Procs : GupRepo(p) /\ Ledger(p) /\ UNCHANGED <<nops, inventorySvc, transactionSvc>>
    \/ \E p \in Procs : GupSet(p) /\ Ledger(p) /\ UNCHANGED <<nops, inventorySvc, transactionSvc>>
    \/ \E p \in Procs : TbCheck(p) /\ Ledger(p) /\ UNCHANGED <<nops, inventorySvc, transactionSvc>>
    \/ \E p \in Procs : TbDebit(p) /\ Ledger(p) /\ UNCHANGED <<nops, inventorySvc, transactionSvc>>
    \/ \E p \in Procs : TbCredit(p) /\ Ledger(p) /\ UNCHANGED <<nops, inventorySvc, transactionSvc>>
    \/ \E p \in Procs : TbRollback(p) /\ Ledger(p) /\ UNCHANGED <<nops, inventorySvc, transactionSvc>>
    \/ \E p \in Procs : TbInvalidate(p) /\ Ledger(p) /\ UNCHANGED <<nops, inventorySvc, transactionSvc>>
    \/ \E p \in Procs : Exit(p) /\ Ledger(p) /\ UNCHANGED <<nops, inventorySvc, transactionSvc>>

SpecTransfers == Init /\ [][NextTransfers]_vars

\* the requests that write a user back, beside balance updates and reads
NextWrite ==
    \/ \E p \in Procs : nops < MaxWriteOps /\ StartGetUserProfile(p) /\ UNCHANGED <<ledger, inventorySvc, transactionSvc>>
    \/ \E p \in Procs : nops < MaxWriteOps /\ StartUpdateBalance(p) /\ UNCHANGED <<ledger, inventorySvc, transactionSvc>>
    \/ \E p \in Procs : nops < MaxWriteOps /\ StartResetPassword(p) /\ UNCHANGED <<ledger, inventorySvc, transactionSvc>>
    \/ \E p \in Procs : nops < MaxWriteOps /\ StartChangePassword(p) /\ UNCHANGED <<ledger, inventorySvc, transactionSvc>>
    \/ \E p \in Procs : nops < MaxWriteOps /\ StartUpdateUserProfile(p) /\ UNCHANGED <<ledger, inventorySvc, transactionSvc>>
    \/ \E p \in Procs : GupGet(p) /\ UNCHANGED <<nops, ledger, inventorySvc, transactionSvc>>
    \/ \E p \in Procs : GupRepo(p) /\ UNCHANGED <<nops, ledger, inventorySvc, transactionSvc>>
    \/ \E p \in Procs : GupSet(p) /\ UNCHANGED <<nops, ledger, inventorySvc, transactionSvc>>
    \/ \E p \in Procs : GpRet(p) /\ UNCHANGED <<nops, ledger, inventorySvc, transactionSvc>>
    \/ \E p \in Procs : UbRepo(p) /\ UNCHANGED <<nops, ledger, inventorySvc, transactionSvc>>
    \/ \E p \in Procs : UbInvalidate(p) /\ UNCHANGED <<nops, ledger, inventorySvc, transactionSvc>>
    \/ \E p \in Procs : RpGet(p) /\ UNCHANGED <<nops, ledger, inventorySvc, transactionSvc>>
    \/ \E p \in Procs : RpRepo(p) /\ UNCHANGED <<nops, ledger, inventorySvc, transactionSvc>>
    \/ \E p \in Procs : RpUpdate(p) /\ UNCHANGED <<nops, ledger, inventorySvc, transactionSvc>>
    \/ \E p \in Procs : RpInvalidate(p) /\ UNCHANGED <<nops, ledger, inventorySvc, transactionSvc>>
    \/ \E p \in Procs : CpCheck(p) /\ UNCHANGED <<nops, ledger, inventorySvc, transactionSvc>>
    \/ \E p \in Procs : CpUpdate(p) /\ UNCHANGED <<nops, ledger, inventorySvc, transactionSvc>>
    \/ \E p \in Procs : CpInvalidate(p) /\ UNCHANGED <<nops, ledger, inventorySvc, transactionSvc>>
    \/ \E p \in Procs : UpEmail(p) /\ UNCHANGED <<nops, ledger, inventorySvc, transactionSvc>>
    \/ \E p \in Procs : UpEmailRepo(p) /\ UNCHANGED <<nops, ledger, inventorySvc, transactionSvc>>
    \/ \E p \in Procs : UpUsername(p) /\ UNCHANGED <<nops, ledger, inventorySvc, transactionSvc>>
    \/ \E p \in Procs : UpUsernameRepo(p) /\ UNCHANGED <<nops, ledger, inventorySvc, transactionSvc>>
    \/ \E p \in Procs : UpUpdate(p) /\ UNCHANGED <<nops, ledger, inventorySvc, transactionSvc>>
    \/ \E p \in Procs : UpCache(p) /\ UNCHANGED <<nops, ledger, inventorySvc, transactionSvc>>
    \/ \E p \in Procs : Exit(p) /\ UNCHANGED <<nops, ledger, inventorySvc, transactionSvc>>

SpecWrite == Init /\ [][NextWrite]_vars

\* a step of the request of p, or a request arrives at p after the one
\* before it returned
SessionTurn(p) == ~Free(p) \/ (nops < MaxSessionOps /\ \A q \in Procs : Free(q))

\* logins, password resets and the reads of users and sessions, one at a time
NextSession ==
    \/ \E p \in Procs : SessionTurn(p) /\ Login(p) /\ UNCHANGED <<ledger, inventorySvc, transactionSvc>>
    \/ \E p \in Procs : SessionTurn(p) /\ ValidateSession(p) /\ UNCHANGED <<ledger, inventorySvc, transactionSvc>>
    \/ \E p \in Procs : SessionTurn(p) /\ StartResetPassword(p) /\ UNCHANGED <<ledger, inventorySvc, transactionSvc>>
    \/ \E p \in Procs : SessionTurn(p) /\ StartGetUserProfile(p) /\ UNCHANGED <<ledger, inventorySvc, transactionSvc>>
    \/ \E p \in Procs : RpGet(p) /\ UNCHANGED <<nops, ledger, inventorySvc, transactionSvc>>
    \/ \E p \in Procs : RpRepo(p) /\ UNCHANGED <<nops, ledger, inventorySvc, transactionSvc>>
    \/ \E p \in Procs : RpUpdate(p) /\ UNCHANGED <<nops, ledger, inventorySvc, transactionSvc>>
    \/ \E p \in Procs : RpInvalidate(p) /\ UNCHANGED <<nops, ledger, inventorySvc, transactionSvc>>
    \/ \E p \in Procs : GupGet(p) /\ UNCHANGED <<nops, ledger, inventorySvc, transactionSvc>>
    \/ \E p \in Procs : GupRepo(p) /\ UNCHANGED <<nops, ledger, inventorySvc, transactionSvc>>
    \/ \E p \in Procs : GupSet(p) /\ UNCHANGED <<nops, ledger, inventorySvc, transactionSvc>>
    \/ \E p \in Procs : GpRet(p) /\ UNCHANGED <<nops, ledger, inventorySvc, transactionSvc>>
    \/ \E p \in Procs : Exit(p) /\ UNCHANGED <<nops, ledger, inventorySvc, transactionSvc>>

SpecSession == Init /\ [][NextSession]_vars

DeleteTurn(p) == ~Free(p) \/ (nops < MaxDeleteOps /\ \A q \in Procs : Free(q))

\* reads, logins, profile updates and deletions of users, one at a time
NextDelete ==
    \/ \E p \in Procs : DeleteTurn(p) /\ Login(p) /\ UNCHANGED <<ledger, inventorySvc, transactionSvc>>
    \/ \E p \in Procs : DeleteTurn(p) /\ StartGetUserProfile(p) /\ UNCHANGED <<ledger, inventorySvc, transactionSvc>>
    \/ \E p \in Procs : DeleteTurn(p) /\ StartGetBalance(p) /\ UNCHANGED <<ledger, inventorySvc, transactionSvc>>
    \/ \E p \in Procs : DeleteTurn(p) /\ StartUpdateUserProfile(p) /\ UNCHANGED <<ledger, inventorySvc, transactionSvc>>
    \/ \E p \in Procs : DeleteTurn(p) /\ StartDeleteUser(p) /\ UNCHANGED <<ledger, inventorySvc, transactionSvc>>
    \/ \E p \in Procs : GupGet(p) /\ UNCHANGED <<nops, ledger, inventorySvc, transactionSvc>>
    \/ \E p \in Procs : GupRepo(p) /\ UNCHANGED <<nops, ledger, inventorySvc, transactionSvc>>
    \/ \E p \in Procs : GupSet(p) /\ UNCHANGED <<nops, ledger, inventorySvc, transactionSvc>>
    \/ \E p \in Procs : GpRet(p) /\ UNCHANGED <<nops, ledger, inventorySvc, transactionSvc>>
    \/ \E p \in Procs : GbGet(p) /\ UNCHANGED <<nops, ledger, inventorySvc, transactionSvc>>
    \/ \E p \in Procs : GbSet(p) /\ UNCHANGED <<nops, ledger, inventorySvc, transactionSvc>>
    \/ \E p \in Procs : UpEmail(p) /\ UNCHANGED <<nops, ledger, inventorySvc, transactionSvc>>
    \/ \E p \in Procs : UpEmailRepo(p) /\ UNCHANGED <<nops, ledger, inventorySvc, transactionSvc>>
    \/ \E p \in Procs : UpUsername(p) /\ UNCHANGED <<nops, ledger, inventorySvc, transactionSvc>>
    \/ \E p \in Procs : UpUsernameRepo(p) /\ UNCHANGED <<nops, ledger, inventorySvc, transactionSvc>>
    \/ \E p \in Procs : UpUpdate(p) /\ UNCHANGED <<nops, ledger, inventorySvc, transactionSvc>>
    \/ \E p \in Procs : UpCache(p) /\ UNCHANGED <<nops, ledger, inventorySvc, transactionSvc>>
    \/ \E p \in Procs : DuRepo(p) /\ UNCHANGED <<nops, ledger, inventorySvc, transactionSvc>>
    \/ \E p \in Procs : DuInvalidate(p) /\ UNCHANGED <<nops, ledger, inventorySvc, transactionSvc>>
    \/ \E p \in Procs : Exit(p) /\ UNCHANGED <<nops, ledger, inventorySvc, transactionSvc>>

SpecDelete == Init /\ [][NextDelete]_vars

ForgotTurn(p) == ~Free(p) \/ nops < MaxForgotOps

\* password reset requests beside reads of users
NextForgot ==
    \/ \E p \in Procs : ForgotTurn(p) /\ ForgotPassword(p) /\ UNCHANGED <<ledger, inventorySvc, transactionSvc>>
    \/ \E p \in Procs : ForgotTurn(p) /\ StartGetUserProfile(p) /\ UNCHANGED <<ledger, inventorySvc, transactionSvc>>
    \/ \E p \in Procs : GupGet(p) /\ UNCHANGED <<nops, ledger, inventorySvc, transactionSvc>>
    \/ \E p \in Procs : GupRepo(p) /\ UNCHANGED <<nops, ledger, inventorySvc, transactionSvc>>
    \/ \E p \in Procs : GupSet(p) /\ UNCHANGED <<nops, ledger, inventorySvc, transactionSvc>>
    \/ \E p \in Procs : GpRet(p) /\ UNCHANGED <<nops, ledger, inventorySvc, transactionSvc>>
    \/ \E p \in Procs : Exit(p) /\ UNCHANGED <<nops, ledger, inventorySvc, transactionSvc>>

SpecForgot == Init /\ [][NextForgot]_vars

\* the service before the first registration
InitRegister ==
    /\ db = [u \in Users |-> NoDoc]
    /\ cache = [k \in Keys |-> NoEntry]
    /\ heap = <<>>
    /\ proc = [p \in Procs |-> IdleProc]
    /\ nops = 0
    /\ ledger = NoLedger
    /\ sessions = NoSessions
    /\ SkinInit
    /\ TxnInit

\* a step of the request of p, or a request arrives at p
RegisterTurn(p) == ~Free(p) \/ nops < MaxRegisterOps

\* Register caches the user it created under user:id, and no entry of a user
\* expires within these requests: the GetUserProfile of ValidateSession hits.
\* registrations and validations of sessions on concurrent goroutines
NextRegister ==
    \/ \E p \in Procs : RegisterTurn(p) /\ Register(p) /\ UNCHANGED <<ledger, inventorySvc, transactionSvc>>
    \/ \E p \in Procs : RegisterTurn(p) /\ ValidateSession(p) /\ UNCHANGED <<ledger, inventorySvc, transactionSvc>>
    \/ \E p \in Procs : GupGet(p) /\ UNCHANGED <<nops, ledger, inventorySvc, transactionSvc>>
    \/ \E p \in Procs : Exit(p) /\ UNCHANGED <<nops, ledger, inventorySvc, transactionSvc>>

SpecRegister == InitRegister /\ [][NextRegister]_vars

\* a step of the request of p, or a request arrives at p
LogoutTurn(p) == ~Free(p) \/ nops < MaxLogoutOps

\* Login caches the user under user:id, and no entry of a user expires within
\* these requests: the GetUserProfile of ValidateSession hits.
\* logins, logouts and validations of sessions on concurrent goroutines
NextLogout ==
    \/ \E p \in Procs : LogoutTurn(p) /\ Login(p) /\ UNCHANGED <<ledger, inventorySvc, transactionSvc>>
    \/ \E p \in Procs : LogoutTurn(p) /\ Logout(p) /\ UNCHANGED <<ledger, inventorySvc, transactionSvc>>
    \/ \E p \in Procs : LogoutTurn(p) /\ ValidateSession(p) /\ UNCHANGED <<ledger, inventorySvc, transactionSvc>>
    \/ \E p \in Procs : GupGet(p) /\ UNCHANGED <<nops, ledger, inventorySvc, transactionSvc>>
    \/ \E p \in Procs : Exit(p) /\ UNCHANGED <<nops, ledger, inventorySvc, transactionSvc>>

SpecLogout == Init /\ [][NextLogout]_vars

\* a step of the request of p, or a request arrives at p after the one
\* before it returned
ExpiryTurn(p) == ~Free(p) \/ (nops < MaxExpiryOps /\ \A q \in Procs : Free(q))

\* The entry of a session is in the cache for as long as the session is in
\* force, and no entry of a user expires within these requests: ValidateSession
\* finds both or rejects the session, and does not call GetUserProfile.
\* logins and validations of sessions, one at a time, with time passing
\* between the requests
NextExpiry ==
    \/ \E p \in Procs : ExpiryTurn(p) /\ Login(p) /\ UNCHANGED <<ledger, inventorySvc, transactionSvc>>
    \/ \E p \in Procs : ExpiryTurn(p) /\ ValidateSession(p) /\ UNCHANGED <<ledger, inventorySvc, transactionSvc>>
    \/ \E p \in Procs : Exit(p) /\ UNCHANGED <<nops, ledger, inventorySvc, transactionSvc>>
    \/ (\A q \in Procs : Free(q)) /\ now < MaxTime /\ Tick /\ UNCHANGED <<userSvc, inventorySvc>>

SpecExpiry == Init /\ [][NextExpiry]_vars

\* ------------------------------------------------------------------ claims

Done(p) == proc[p].pc = "done"
Transferred(p) == Done(p) /\ proc[p].op = "TransferBalance"
Quiet == \A p \in Procs : proc[p].pc \in {"idle", "done"}

Unchanged(p, u) ==
    /\ db[u].exists = proc[p].pre[u].exists
    /\ db[u].balance = proc[p].pre[u].balance

\* no UpdateUserBalance call was made by the call of p
NoMutation(p) == proc[p].deb = "-" /\ proc[p].cred = "-" /\ proc[p].rb = "-"

\* the errors TransferBalance returns when nothing is left half done
OrdinaryFailures == {ErrSenderNotFound, ErrInsufficient449, ErrRecipientNotFound, ErrRepo}

C2_SuccessChangedBothSides ==
    \A p \in Procs :
       (Transferred(p) /\ proc[p].res = ErrNil /\ proc[p].a # proc[p].b)
       => (proc[p].deb = "applied" <=> proc[p].cred = "applied")

\* C3: a TransferBalance(A, B, amount) between two distinct stored accounts with
\* amount > balance(A), running alone and with no repository failure, returns
\* the insufficient-balance failure and leaves every stored balance as it was.
C3_InsufficientBalanceRejected ==
    \A p \in Procs :
       LET c == proc[p] IN
       (/\ Transferred(p) /\ ~c.flt /\ c.a # c.b
        /\ c.pre[c.a].exists /\ c.pre[c.b].exists /\ c.amt > c.pre[c.a].balance)
       => /\ c.res = ErrInsufficient449
          /\ NoMutation(p)
          /\ \A u \in Users : Unchanged(p, u)

C5_UnrecoveredIsDistinguishable ==
    \A p \in Procs :
       LET c == proc[p] IN
       (/\ Transferred(p) /\ c.a # c.b /\ c.amt > 0
        /\ c.deb = "applied" /\ c.cred = "failed" /\ c.rb = "failed")
       => c.res \notin OrdinaryFailures

\* C6: a TransferBalance with amount <= 0 between two distinct stored accounts,
\* with no repository failure, fails (the rejection as an invalid argument) and
\* changes no stored balance.
C6_NonPositiveAmountRejected ==
    \A p \in Procs :
       LET c == proc[p] IN
       (/\ Transferred(p) /\ ~c.flt /\ c.a # c.b /\ c.amt <= 0
        /\ c.pre[c.a].exists /\ c.pre[c.b].exists)
       => /\ c.res # ErrNil
          /\ \A u \in Users : Unchanged(p, u)

\* C7: with no repository failure, a TransferBalance whose sender or whose
\* receiver is not stored when it arrives fails (the account-not-found error)
\* and makes no balance update.
C7_MissingAccountRejected ==
    \A p \in Procs :
       LET c == proc[p] IN
       (/\ Transferred(p) /\ ~c.flt /\ c.a # c.b
        /\ (~c.pre[c.a].exists \/ ~c.pre[c.b].exists))
       => /\ c.res # ErrNil
          /\ NoMutation(p)

C10_TransferInvalidates ==
    \A p \in Procs :
       (Transferred(p) /\ proc[p].res = ErrNil)
       => \A u \in {proc[p].a, proc[p].b} :
             /\ CacheGet(cache, Key(CacheKeyUserByID, u)) = NoEntry
             /\ CacheGet(cache, Key(CacheKeyBalance, u)) = NoEntry

C10_Witness ==
    \E p \in Procs :
       /\ Transferred(p) /\ proc[p].res = ErrNil /\ proc[p].a # proc[p].b
       /\ proc[p].deb = "applied" /\ proc[p].cred = "applied"
       /\ nops = MaxOps

\* the requests that write a whole user back
PasswordAndProfileOps == {"ResetPassword", "ChangePassword", "UpdateUserProfile"}

\* C8: no step of a ResetPassword, ChangePassword or UpdateUserProfile call
\* changes the stored balance of any user.
C8_ProfileWritesKeepBalance ==
    [][\A p \in Procs :
          (proc[p].op \in PasswordAndProfileOps /\ proc'[p] # proc[p])
          => \A u \in Users : db'[u].balance = db[u].balance]_vars

\* the cache keys under which a copy of the stored user u is looked up
ExposingKeys(u) ==
    {Key(CacheKeyUserByID, u), Key(CacheKeyBalance, u),
     Key(CacheKeyUserByEmail, db[u].email), Key(CacheKeyUserByUsername, db[u].username)}

\* the entry under k is absent or carries the stored balance of u
CarriesStoredBalance(k, u) ==
    LET e == CacheGet(cache, k)
    IN \/ e = NoEntry
       \/ e.kind = "user" /\ heap[e.ref].balance = db[u].balance
       \/ e.kind = "float64" /\ e.val = db[u].balance

\* C11: when an UpdateBalance(U, delta) with delta # 0, or a TransferBalance
\* between two distinct accounts one of which is U, has returned success after
\* running alone, every cache entry under user:id:U, user:email:<U's email>,
\* user:username:<U's username> and balance:U is absent or carries the stored
\* balance of U.
C11_NoEntryKeepsOldBalance ==
    \A p \in Procs :
       LET c == proc[p] IN
       (/\ Done(p) /\ c.res = ErrNil /\ c.amt # 0
        /\ \/ c.op = "UpdateBalance"
           \/ c.op = "TransferBalance" /\ c.a # c.b)
       => \A u \in ({c.a, c.b} \cap Users) :
             db[u].exists => \A k \in ExposingKeys(u) : CarriesStoredBalance(k, u)

\* ------------------------------------------------------------------ inventory specifications

\* worker p may move: it is in a request, or a request may arrive
SkinAny(p) == SkinRunning(p) \/ skinOps < MaxSkinOps
\* the same, when a request arrives only after the one before it returned
SkinAlone(p) == SkinRunning(p) \/ (skinOps < MaxSkinOps /\ \A q \in Procs : ~SkinRunning(q))

\* the requests of the inventory service, one at a time
NextSkinSeq ==
    \/ \E p \in Procs : SkinAlone(p) /\ GetSkin(p) /\ UNCHANGED <<userSvc, transactionSvc>>
    \/ \E p \in Procs : SkinAlone(p) /\ ListSkins(p) /\ UNCHANGED <<userSvc, transactionSvc>>
    \/ \E p \in Procs : SkinAlone(p) /\ CreateSkin(p) /\ UNCHANGED <<userSvc, transactionSvc>>
    \/ \E p \in Procs : SkinAlone(p) /\ UpdateSkin(p) /\ UNCHANGED <<userSvc, transactionSvc>>
    \/ \E p \in Procs : SkinAlone(p) /\ DeleteSkin(p) /\ UNCHANGED <<userSvc, transactionSvc>>
    \/ \E p \in Procs : SkinAlone(p) /\ ToggleListing(p) /\ UNCHANGED <<userSvc, transactionSvc>>
    \/ \E p \in Procs : SkinAlone(p) /\ TransferOwnership(p) /\ UNCHANGED <<userSvc, transactionSvc>>

SpecSkinSeq == Init /\ [][NextSkinSeq]_vars

\* reads and updates of skins, interleaved
NextSkinRace ==
    \/ \E p \in Procs : SkinAny(p) /\ GetSkin(p) /\ UNCHANGED <<userSvc, transactionSvc>>
    \/ \E p \in Procs : SkinAny(p) /\ UpdateSkin(p) /\ UNCHANGED <<userSvc, transactionSvc>>

SpecSkinRace == Init /\ [][NextSkinRace]_vars

\* ------------------------------------------------------------------ transaction specifications

\* worker p may move: it is in a request, or a request may arrive
TxnAny(p) == TxnRunning(p) \/ txnOps < MaxTxnOps
\* the same, when a request arrives only after the one before it returned
TxnAlone(p) == TxnRunning(p) \/ (txnOps < MaxTxnOps /\ \A q \in Procs : ~TxnRunning(q))

\* the requests of the transaction service, one at a time, within a minute
NextTxnSeq ==
    \/ \E p \in Procs : TxnAlone(p) /\ TxnRead(p, "GetTransaction") /\ UNCHANGED <<userSvc, inventorySvc>>
    \/ \E p \in Procs : TxnAlone(p) /\ TxnRead(p, "GetTransactionsByUser") /\ UNCHANGED <<userSvc, inventorySvc>>
    \/ \E p \in Procs : TxnAlone(p) /\ TxnRead(p, "GetTransactionsByStatus") /\ UNCHANGED <<userSvc, inventorySvc>>
    \/ \E p \in Procs : TxnAlone(p) /\ TxnRead(p, "GetAllTransactions") /\ UNCHANGED <<userSvc, inventorySvc>>
    \/ \E p \in Procs : TxnAlone(p) /\ TxnRead(p, "GetTransactionStats") /\ UNCHANGED <<userSvc, inventorySvc>>
    \/ \E p \in Procs : TxnAlone(p) /\ TxnCreate(p, "CreateTransaction") /\ UNCHANGED <<userSvc, inventorySvc>>
    \/ \E p \in Procs : TxnAlone(p) /\ TxnCreate(p, "ProcessPurchase") /\ UNCHANGED <<userSvc, inventorySvc>>
    \/ \E p \in Procs : TxnAlone(p) /\ TxnUpdate(p, "UpdateTransaction") /\ UNCHANGED <<userSvc, inventorySvc>>
    \/ \E p \in Procs : TxnAlone(p) /\ TxnUpdate(p, "CancelTransaction") /\ UNCHANGED <<userSvc, inventorySvc>>
    \/ \E p \in Procs : TxnAlone(p) /\ DeleteTransaction(p) /\ UNCHANGED <<userSvc, inventorySvc>>

SpecTxnSeq == Init /\ [][NextTxnSeq]_vars

\* reads of a list and cancellations, interleaved, while time passes
NextTxnTime ==
    \/ \E p \in Procs : TxnAny(p) /\ TxnRead(p, "GetTransactionsByStatus") /\ UNCHANGED <<userSvc, inventorySvc>>
    \/ \E p \in Procs : TxnAny(p) /\ TxnUpdate(p, "CancelTransaction") /\ UNCHANGED <<userSvc, inventorySvc>>
    \/ now < MaxTime /\ Tick /\ UNCHANGED <<userSvc, inventorySvc>>

SpecTxnTime == Init /\ [][NextTxnTime]_vars


\* ------------------------------------------------------------------ the cached reads

\* the cached reads of the three services, one request at a time and no
\* write: a read starts when no request of any service is in progress
ReadTurn(running) ==
    \/ running
    \/ /\ nops + skinOps + txnOps < MaxReadOps
       /\ \A q \in Procs : proc[q].pc \in {"idle", "done"} /\ ~SkinRunning(q) /\ ~TxnRunning(q)

NextReads ==
    \/ \E p \in Procs : ReadTurn(FALSE) /\ StartGetUserProfile(p) /\ UNCHANGED <<ledger, inventorySvc, transactionSvc>>
    \/ \E p \in Procs : GupGet(p) /\ UNCHANGED <<nops, ledger, inventorySvc, transactionSvc>>
    \/ \E p \in Procs : GupRepo(p) /\ UNCHANGED <<nops, ledger, inventorySvc, transactionSvc>>
    \/ \E p \in Procs : GupSet(p) /\ UNCHANGED <<nops, ledger, inventorySvc, transactionSvc>>
    \/ \E p \in Procs : GpRet(p) /\ UNCHANGED <<nops, ledger, inventorySvc, transactionSvc>>
    \/ \E p \in Procs : Exit(p) /\ UNCHANGED <<nops, ledger, inventorySvc, transactionSvc>>
    \/ \E p \in Procs : ReadTurn(SkinRunning(p)) /\ GetSkin(p) /\ UNCHANGED <<userSvc, transactionSvc>>
    \/ \E p \in Procs : ReadTurn(SkinRunning(p)) /\ ListSkins(p) /\ UNCHANGED <<userSvc, transactionSvc>>
    \/ \E p \in Procs : ReadTurn(TxnRunning(p)) /\ TxnRead(p, "GetTransaction") /\ UNCHANGED <<userSvc, inventorySvc>>
    \/ \E p \in Procs : ReadTurn(TxnRunning(p)) /\ TxnRead(p, "GetTransactionsByUser") /\ UNCHANGED <<userSvc, inventorySvc>>
    \/ \E p \in Procs : ReadTurn(TxnRunning(p)) /\ TxnRead(p, "GetTransactionsByStatus") /\ UNCHANGED <<userSvc, inventorySvc>>
    \/ \E p \in Procs : ReadTurn(TxnRunning(p)) /\ TxnRead(p, "GetAllTransactions") /\ UNCHANGED <<userSvc, inventorySvc>>
    \/ \E p \in Procs : ReadTurn(TxnRunning(p)) /\ TxnRead(p, "GetTransactionStats") /\ UNCHANGED <<userSvc, inventorySvc>>

SpecReads == Init /\ [][NextReads]_vars


\* a cache fault: while no request is in progress, a key of a cached read
\* comes to hold a value of another type than the read stores under it
TypeFault ==
    /\ \A q \in Procs : proc[q].pc \in {"idle", "done"} /\ ~SkinRunning(q) /\ ~TxnRunning(q)
    /\ \A k \in Keys : k[1] = CacheKeyUserByID => cache[k].kind # "float64"
    /\ \A k \in SkinKeys : skinCache[k].kind \in {"none", IF k[1] = "skin:" THEN "skin" ELSE "list"}
    /\ \A k \in TxnKeys : txnCache[k].kind \in {"none", TxnKind(k)}
    /\ \/ \E u \in Users :
             /\ cache' = CacheSet(cache, Key(CacheKeyUserByID, u), FloatEntry(9))
             /\ heap' = GC(heap, cache', proc)
             /\ UNCHANGED <<db, proc, nops, ledger, sessions, inventorySvc, transactionSvc>>
       \/ \E k \in SkinKeys :
             /\ skinCache' = [skinCache EXCEPT ![k] =
                    IF k[1] = "skin:" THEN SkinEntry("list", NilSkin, {})
                    ELSE SkinEntry("skin", NilSkin, {})]
             /\ UNCHANGED <<userSvc, skins, skinProc, skinOps, transactionSvc>>
       \/ \E k \in TxnKeys :
             /\ k[2] # <<>>
             /\ txnCache' = [txnCache EXCEPT ![k] =
                    TxnEntry(IF TxnKind(k) = "list" THEN "stats" ELSE "list", NoVal,
                             now + TxnTTL(k), now)]
             /\ UNCHANGED <<userSvc, inventorySvc, txns, txnProc, txnOps, now>>

\* the cached reads, with a cache fault
NextMismatch ==
    \/ NextReads /\ nops' + skinOps' + txnOps' <= MaxFaultReads
    \/ TypeFault

SpecMismatch == Init /\ [][NextMismatch]_vars


\* ------------------------------------------------------------------ statistics

\* GetTransactionStats over any collection of up to two transactions: the
\* documents differ in buyer, seller, amount and status
InitStats ==
    /\ db = InitDb
    /\ cache = [k \in Keys |-> NoEntry]
    /\ heap = <<>>
    /\ proc = [p \in Procs |-> IdleProc]
    /\ nops = 0
    /\ ledger = NoLedger
    /\ sessions = NoSessions
    /\ SkinInit
    /\ \E f \in [TxnObjectIDs ->
                    {<<>>} \cup
                    ({<<"u1", "">>, <<"u2", "u1">>, <<"u2", "">>} \X {10, 20}
                     \X {"PENDING", "COMPLETED", "FAILED", "CANCELLED"})] :
          txns = [i \in TxnObjectIDs |->
                    IF f[i] = <<>> THEN NilTxn
                    ELSE TxnDoc(i, f[i][1][1], f[i][1][2], "s1", f[i][2], f[i][3], "")]
    /\ txnCache = [k \in TxnKeys |-> NoTxnEntry]
    /\ txnProc = [p \in Procs |-> IdleTxnProc]
    /\ txnOps = 0
    /\ now = 0

NextStats ==
    \E p \in Procs : TxnAlone(p) /\ TxnRead(p, "GetTransactionStats") /\ UNCHANGED <<userSvc, inventorySvc>>

SpecStats == InitStats /\ [][NextStats]_vars

\* ------------------------------------------------------------------ status of a transaction

\* the status field of an UpdateTransactionRequest: an int32 on the wire, the
\* four numbers of the enum or any other
RequestStatuses == 0..MaxStatus

\* updates and cancellations with any status, one at a time
NextTxnStatus ==
    \/ \E p \in Procs :
          /\ TxnRunning(p) \/ (txnOps < MaxStatusOps /\ \A q \in Procs : ~TxnRunning(q))
          /\ TxnUpdateOf(p, "UpdateTransaction", RequestStatuses \X {"", "d"})
          /\ UNCHANGED <<userSvc, inventorySvc>>
    \/ \E p \in Procs :
          /\ TxnRunning(p) \/ (txnOps < MaxStatusOps /\ \A q \in Procs : ~TxnRunning(q))
          /\ TxnUpdateOf(p, "CancelTransaction", {TransactionStatus.PENDING} \X {"", "d"})
          /\ UNCHANGED <<userSvc, inventorySvc>>

SpecTxnStatus == Init /\ [][NextTxnStatus]_vars

\* ------------------------------------------------------------------ keys of dated statistics

\* getListCacheKey: key := prefix; for each param, key += fmt.Sprintf("_%v", param)
RECURSIVE getListCacheKey(_, _)
getListCacheKey(prefix, params) ==
    IF params = <<>> THEN prefix
    ELSE getListCacheKey(prefix \o "_" \o Head(params), Tail(params))

\* the user_id, start_date and end_date of a GetTransactionStatsRequest: any
\* strings; "" is the absent field, "u1" the hex of an ObjectID, "2000" a string
\* below and "_" a string above every stored date ("2006-01-02 15:04:05")
StatsUserIDs == {"", "u1", "_"}
StatsDates == {"", "2000", "_"}
StatsParams == StatsUserIDs \X StatsDates \X StatsDates
StatsKeys == {getListCacheKey(CachePrefix.stats, q) : q \in StatsParams}

\* the filter of the repository: buyer_id or seller_id is the user when one is
\* given, date >= startDate and date <= endDate when they are not ""
StatsMatch(t, q) ==
    /\ t.id # ""
    /\ q[1] = "" \/ t.buyer = ObjectIDFromHex(q[1]) \/ t.seller = ObjectIDFromHex(q[1])
    /\ q[2] # "_"
    /\ q[3] # "2000"

\* what GetTransactionStats answers for the parameters q without the cache
StatsAnswer(d, q) ==
    LET txs == (IF StatsMatch(d["t2"], q) THEN <<d["t2"]>> ELSE <<>>)
               \o (IF StatsMatch(d["t1"], q) THEN <<d["t1"]>> ELSE <<>>)
    IN  IF q[1] # "" /\ ObjectIDFromHex(q[1]) = ""
        THEN [err |-> TxnErr.id, val |-> NoVal]
        ELSE [err |-> ErrNil,
              val |-> TxnVal(NilTxn, <<>>, Len(txs), TxnSum(txs),
                             TxnCount(txs, {"COMPLETED"}),
                             TxnCount(txs, {"FAILED", "CANCELLED"}))]

StatsStep(p, rec, c2) ==
    /\ txnProc' = [txnProc EXCEPT ![p] = rec]
    /\ txnCache' = c2
    /\ UNCHANGED <<txns, txnOps, now>>

\* GetTransactionStats of a request with any user_id, start_date and end_date
GetTransactionStats(p) ==
    LET c == txnProc[p]
        e == txnCache[c.key]
        r == StatsAnswer(txns, c.params)
    IN \/ \E q \in StatsParams :
             TxnBegin(p, [IdleTxnProc EXCEPT !.pc = "st_get", !.op = "GetTransactionStats",
                                            !.params = q,
                                            !.key = getListCacheKey(CachePrefix.stats, q)])
       \/ /\ c.pc = "st_get"
          /\ IF e.kind = "stats" /\ now <= e.exp
             THEN StatsStep(p, [TxnReturned(p, ErrNil, e.val) EXCEPT !.hit = TRUE], txnCache)
             ELSE IF r.err = TxnErr.id THEN StatsStep(p, TxnReturned(p, r.err, NoVal), txnCache)
             ELSE StatsStep(p, [c EXCEPT !.pc = "st_repo"], txnCache)
       \/ /\ c.pc = "st_repo"
          /\ \E fail \in BOOLEAN :
                IF fail THEN StatsStep(p, [TxnReturned(p, TxnErr.get, NoVal) EXCEPT !.flt = TRUE],
                                       txnCache)
                ELSE StatsStep(p, [c EXCEPT !.pc = "st_set", !.val = r.val], txnCache)
       \/ /\ c.pc = "st_set"
          /\ StatsStep(p, TxnReturned(p, ErrNil, c.val),
                       [txnCache EXCEPT ![c.key] = TxnEntry("stats", c.val, now + statsCacheTTL, now)])

InitStatsKeys ==
    /\ db = InitDb
    /\ cache = [k \in Keys |-> NoEntry]
    /\ heap = <<>>
    /\ proc = [p \in Procs |-> IdleProc]
    /\ nops = 0
    /\ ledger = NoLedger
    /\ sessions = NoSessions
    /\ SkinInit
    /\ txns = [i \in TxnObjectIDs |-> IF i = "t1" THEN TxnDoc("t1", "u1", "u2", "s1", 100, "PENDING", "")
                                      ELSE NilTxn]
    /\ txnCache = [k \in StatsKeys |-> NoTxnEntry]
    /\ txnProc = [p \in Procs |-> IdleTxnProc]
    /\ txnOps = 0
    /\ now = 0

NextStatsKeys ==
    \E p \in Procs :
       /\ TxnRunning(p) \/ (txnOps < MaxKeyOps /\ \A q \in Procs : ~TxnRunning(q))
       /\ GetTransactionStats(p)
       /\ UNCHANGED <<userSvc, inventorySvc>>

SpecStatsKeys == InitStatsKeys /\ [][NextStatsKeys]_vars

\* ------------------------------------------------------------------ inventory claims

SkinDone(p) == skinProc[p].pc = "done"

SkinWrites == {"CreateSkin", "UpdateSkin", "DeleteSkin", "ToggleListing", "TransferOwnership"}

\* the call of p was a skin write that returned success
SkinWritten(p) == SkinDone(p) /\ skinProc[p].op \in SkinWrites /\ skinProc[p].res = ErrNil

\* the skin the returned write of p was about
WrittenSkin(p) ==
    IF skinProc[p].op = "CreateSkin" THEN skinProc[p].ret.id ELSE ObjectIDFromHex(skinProc[p].id)

\* g is the request that arrived next after w
NextAfter(w, g) == SkinDone(w) /\ SkinDone(g) /\ skinProc[g].seq = skinProc[w].seq + 1

\* C12: with one request at a time, the GetSkin that comes next after a
\* successful CreateSkin, UpdateSkin, ToggleListing or TransferOwnership on a
\* skin returns, whatever identifier string of the skin it is given, the state
\* the collection holds for the skin after that write, and the GetSkin that
\* comes next after a successful DeleteSkin does not return a skin.
C12_NextGetSkinReturnsWrite ==
    \A w, g \in Procs :
        (/\ NextAfter(w, g) /\ SkinWritten(w)
         /\ skinProc[g].op = "GetSkin"
         /\ ObjectIDFromHex(skinProc[g].id) = WrittenSkin(w))
        => IF skinProc[w].op = "DeleteSkin"
           THEN skinProc[g].res # ErrNil
           ELSE skinProc[g].res = ErrNil
                => skinProc[g].ret = SkinToProto(WrittenSkin(w), skins[WrittenSkin(w)])

\* C14: when two UpdateSkin calls on the same skin run concurrently and both
\* have returned, the entry of the skin's key is not the result of the call
\* whose repository write was the earlier one.
C14_CacheFollowsRepositoryOrder ==
    \A p, q \in Procs :
        LET e == skinProc[p]
            l == skinProc[q]
        IN (/\ SkinWritten(p) /\ SkinWritten(q)
            /\ e.op = "UpdateSkin" /\ l.op = "UpdateSkin"
            /\ WrittenSkin(p) = WrittenSkin(q)
            /\ e.rev < l.rev
            /\ e.ret # l.ret)
           => skinCache[SkinKey(WrittenSkin(p))] # SkinEntry("skin", e.ret, {})

\* the call of p is the last request that arrived, and it was a successful write
LastWritten(p) == SkinWritten(p) /\ skinProc[p].seq = skinOps

\* C17: with one request at a time, when a successful skin write has
\* returned, the cache has no entry under list::false.
C17_WriteRemovesUnscopedList ==
    \A p \in Procs :
        LastWritten(p) => skinCache[ListKey("", FALSE)].kind = "none"

\* C19: with one request at a time, when a successful skin write has
\* returned, the cache has no entry under list:O:true and list:O:false for
\* the owner O the skin had, under list:N:true and list:N:false for the new
\* owner N of a TransferOwnership, and under list::true, also when the read
\* of the skin before the write failed.
C19_WriteRemovesOwnerLists ==
    \A p \in Procs :
        LastWritten(p) =>
            \A k \in {ListKey(skinProc[p].owned, TRUE), ListKey(skinProc[p].owned, FALSE),
                       ListKey("", TRUE)}
                   \cup (IF skinProc[p].op = "TransferOwnership"
                         THEN {ListKey(skinProc[p].owner, TRUE), ListKey(skinProc[p].owner, FALSE)}
                         ELSE {}) :
                skinCache[k].kind = "none"

\* ------------------------------------------------------------------ transaction claims

TxnDone(p) == txnProc[p].pc = "done"

TxnWrites ==
    {"CreateTransaction", "UpdateTransaction", "DeleteTransaction", "CancelTransaction",
     "ProcessPurchase"}

\* the call of p was a mutating operation that returned success, and no
\* request arrived after it
TxnLastWritten(p) ==
    /\ TxnDone(p) /\ txnProc[p].op \in TxnWrites /\ txnProc[p].res = ErrNil
    /\ txnProc[p].seq = txnOps

\* the transaction the returned write of p was about, as it was stored
\* before a deletion and as it is stored after another write
TxnWrittenBy(p) ==
    IF txnProc[p].op = "DeleteTransaction" THEN txnProc[p].was ELSE txnProc[p].ret.tx

\* C13: with one request at a time, the GetTransaction that comes next after
\* a successful UpdateTransaction, CancelTransaction or DeleteTransaction on
\* a transaction, given any identifier string of that transaction, returns
\* the record as the collection holds it after the write, and fails after a
\* deletion.
C13_NextGetTransactionIsFresh ==
    \A w, g \in Procs :
        (/\ TxnDone(w) /\ TxnDone(g) /\ txnProc[g].seq = txnProc[w].seq + 1
         /\ txnProc[w].op \in {"UpdateTransaction", "CancelTransaction", "DeleteTransaction"}
         /\ txnProc[w].res = ErrNil
         /\ txnProc[g].op = "GetTransaction"
         /\ ObjectIDFromHex(txnProc[g].key[2][1]) = ObjectIDFromHex(txnProc[w].id))
        => IF txnProc[w].op = "DeleteTransaction"
           THEN txnProc[g].res # ErrNil
           ELSE txnProc[g].res = ErrNil
                => txnProc[g].ret.tx = txns[ObjectIDFromHex(txnProc[w].id)]

\* C15: with one request at a time, when a successful mutating operation
\* has returned, no key of the statistics namespace has an entry.
C15_WriteClearsStats ==
    \A p \in Procs :
        TxnLastWritten(p) =>
            \A k \in TxnKeys : k[1] = CachePrefix.stats => txnCache[k].kind = "none"

\* a successful mutating operation has returned, and the request before it
\* was a GetTransactionStats that stored its answer
C15_Witness ==
    \E p, q \in Procs :
        /\ TxnLastWritten(p)
        /\ TxnDone(q) /\ txnProc[q].op = "GetTransactionStats"
        /\ txnProc[q].res = ErrNil /\ ~txnProc[q].hit
        /\ txnProc[q].seq + 1 = txnProc[p].seq

\* C16: with one request at a time, when a successful mutating operation
\* has returned, no key of GetAllTransactions has an entry, whatever its
\* limit and offset.
C16_WriteClearsAllTransactions ==
    \A p \in Procs :
        TxnLastWritten(p) =>
            \A k \in TxnKeysOf("GetAllTransactions") : txnCache[k].kind = "none"

\* C18: with one request at a time, when a successful mutating operation on
\* a transaction has returned, no key of GetTransactionsByUser for the buyer
\* or the seller of the transaction has an entry.
C18_WriteClearsUserLists ==
    \A p \in Procs :
        TxnLastWritten(p) =>
            \A k \in TxnKeysOf("GetTransactionsByUser") :
                k[2][1] \in {TxnWrittenBy(p).buyer, TxnWrittenBy(p).seller}
                => txnCache[k].kind = "none"

\* C20: a value that a read returned from the cache was the answer of the
\* repository to the read's query at a time that lies no more than the TTL
\* of the read's namespace before the return.
C20_BoundedStaleness ==
    \A p \in Procs :
        (TxnDone(p) /\ txnProc[p].hit)
        => txnProc[p].at - txnProc[p].seen <= TxnTTL(txnProc[p].key)

TxnReads ==
    {"GetTransaction", "GetTransactionsByUser", "GetTransactionsByStatus",
     "GetAllTransactions", "GetTransactionStats"}

\* C21: with one request at a time, a read of the cached use case that met
\* no failure of the driver returns what the use case without a cache
\* returns for the same request over the collection as it is at the read.
C21_CachedReadEqualsUncached ==
    \A p \in Procs :
        (/\ TxnDone(p) /\ txnProc[p].seq = txnOps
         /\ txnProc[p].op \in TxnReads /\ ~txnProc[p].flt)
        => /\ txnProc[p].res = UncachedRead(txns, txnProc[p].key).err
           /\ txnProc[p].ret = UncachedRead(txns, txnProc[p].key).val

\* ------------------------------------------------------------------ claims on the cached reads

\* C22: with reads only, one at a time and no time passing, a GetSkin,
\* GetTransaction or GetUserProfile that follows a successful read of the
\* same request does not reach the repository call and returns the value
\* the earlier read returned and stored (for GetUserProfile: the read in
\* progress is about to return the pointer the cache holds).
C22_RepeatedReadHits ==
    /\ \A r, g \in Procs :
          (/\ SkinDone(r) /\ skinProc[r].op = "GetSkin" /\ skinProc[r].res = ErrNil
           /\ skinProc[g].op = "GetSkin" /\ skinProc[g].id = skinProc[r].id
           /\ skinProc[g].seq = skinProc[r].seq + 1)
          => /\ skinProc[g].pc \notin {"gs_repo", "gs_set"}
             /\ SkinDone(g) => skinProc[g].res = ErrNil /\ skinProc[g].ret = skinProc[r].ret
    /\ \A r, g \in Procs :
          (/\ TxnDone(r) /\ txnProc[r].op = "GetTransaction" /\ txnProc[r].res = ErrNil
           /\ txnProc[g].op = "GetTransaction" /\ txnProc[g].key = txnProc[r].key
           /\ txnProc[g].seq = txnProc[r].seq + 1)
          => /\ txnProc[g].pc \notin {"rd_repo", "rd_set"}
             /\ TxnDone(g) => txnProc[g].res = ErrNil /\ txnProc[g].ret = txnProc[r].ret
    /\ \A r, g \in Procs :
          (/\ r # g
           /\ proc[r].pc = "done" /\ proc[r].op = "GetUserProfile" /\ proc[r].res = ErrNil
           /\ proc[g].op = "GetUserProfile" /\ proc[g].a = proc[r].a)
          => /\ proc[g].pc \notin {"gup_repo", "gup_set"}
             /\ proc[g].pc = "gp_ret"
                => /\ proc[g].gerr = ErrNil
                   /\ proc[g].gu = cache[Key(CacheKeyUserByID, proc[g].a)].ref
                   /\ heap[proc[g].gu].balance = proc[r].val

\* a GetTransaction missed and stored the transaction, and the same
\* GetTransaction after it has returned
C22_Witness ==
    \E r, g \in Procs :
        /\ TxnDone(r) /\ txnProc[r].op = "GetTransaction" /\ txnProc[r].res = ErrNil
        /\ ~txnProc[r].hit
        /\ TxnDone(g) /\ txnProc[g].op = "GetTransaction" /\ txnProc[g].key = txnProc[r].key
        /\ txnProc[g].seq = txnProc[r].seq + 1

\* C26: a cached read whose repository call failed returns the failure,
\* and no step of it changes the cache: with reads only, a cache changes
\* only in the step that stores the answer of the repository, from which
\* the read returns success.
C26_FailedReadKeepsCache ==
    [][/\ cache' # cache
          => \E p \in Procs : /\ proc[p].pc = "gup_set" /\ proc'[p].pc = "gp_ret"
                               /\ proc'[p].gerr = ErrNil
       /\ skinCache' # skinCache
          => \E p \in Procs : /\ skinProc[p].pc \in {"gs_set", "ls_set"}
                               /\ skinProc'[p].pc = "done" /\ skinProc'[p].res = ErrNil
       /\ txnCache' # txnCache
          => \E p \in Procs : /\ txnProc[p].pc = "rd_set"
                               /\ txnProc'[p].pc = "done" /\ txnProc'[p].res = ErrNil
       /\ \A p \in Procs :
             /\ (proc'[p].pc = "done" /\ proc'[p].flt) => proc'[p].res # ErrNil
             /\ (skinProc'[p].pc = "done" /\ skinProc'[p].flt) => skinProc'[p].res # ErrNil
             /\ (txnProc'[p].pc = "done" /\ txnProc'[p].flt) => txnProc'[p].res # ErrNil]_vars

\* the repository call of a read has failed and the read has returned,
\* while the cache holds the answer of an earlier read
C26_Witness ==
    \E p \in Procs :
        /\ TxnDone(p) /\ txnProc[p].flt /\ txnProc[p].op \in TxnReads
        /\ \E k \in TxnKeys : txnCache[k].kind # "none"

\* C23: a read that finds under its key a value of another type than it
\* stores goes on to the repository; with reads only and one request at a
\* time, every read of which no repository call failed returns what the
\* repository answers, whatever the cache holds.
C23_MismatchIsMiss ==
    /\ \A p \in Procs :
          (proc[p].pc = "done" /\ proc[p].op = "GetUserProfile" /\ ~proc[p].flt)
          => IF db[proc[p].a].exists
             THEN proc[p].res = ErrNil /\ proc[p].val = db[proc[p].a].balance
             ELSE proc[p].res = ErrNoDocuments
    /\ \A p \in Procs :
          (SkinDone(p) /\ ~skinProc[p].flt)
          => /\ skinProc[p].op = "GetSkin"
                => /\ skinProc[p].res = RepoGetSkin(skins, skinProc[p].id).err
                   /\ skinProc[p].ret = RepoGetSkin(skins, skinProc[p].id).skin
             /\ skinProc[p].op = "ListSkins"
                => /\ skinProc[p].res = ErrNil
                   /\ skinProc[p].list = RepoListSkins(skins, skinProc[p].owner, skinProc[p].listed)
    /\ \A p \in Procs :
          (TxnDone(p) /\ ~txnProc[p].flt)
          => /\ txnProc[p].res = TxnAnswer(txns, txnProc[p].key).err
             /\ txnProc[p].ret = TxnAnswer(txns, txnProc[p].key).val

\* a GetTransactionStats is at its repository call while its key holds a
\* value that is no *transaction.TransactionStatsResponse
C23_Witness ==
    \E p \in Procs :
        /\ txnProc[p].pc = "rd_repo" /\ txnProc[p].op = "GetTransactionStats"
        /\ txnCache[txnProc[p].key].kind = "list"

\* ------------------------------------------------------------------ claims on the statistics

\* the transactions of the collection that the filter of the request of p
\* matches: all of them, or those the user bought or sold
StatsMatching(p) ==
    {i \in TxnObjectIDs :
        /\ txns[i].id # ""
        /\ \/ txnProc[p].key[2][1] = ""
           \/ txns[i].buyer = txnProc[p].key[2][1]
           \/ txns[i].seller = txnProc[p].key[2][1]}

StatsReturned(p) ==
    TxnDone(p) /\ txnProc[p].op = "GetTransactionStats" /\ txnProc[p].res = ErrNil

\* C24: the statistics returned are the number of the matching
\* transactions, the sum of their amounts, the number of the COMPLETED
\* ones, the number of the FAILED or CANCELLED ones, and the sum divided by
\* the number.
C24_StatsAreCountsAndSums ==
    \A p \in Procs :
        StatsReturned(p) =>
            LET M == StatsMatching(p)
                r == txnProc[p].ret
            IN /\ r.total = Cardinality(M)
               /\ r.amount = (IF "t1" \in M THEN txns["t1"].amount ELSE 0)
                             + (IF "t2" \in M THEN txns["t2"].amount ELSE 0)
               /\ r.ok = Cardinality({i \in M : txns[i].status = "COMPLETED"})
               /\ r.bad = Cardinality({i \in M : txns[i].status \in {"FAILED", "CANCELLED"}})
               /\ M # {} => r.avg * r.total = r.amount

\* the statistics of [{10, COMPLETED}, {20, FAILED}] have been returned
C24_Witness ==
    \E p \in Procs :
        /\ StatsReturned(p) /\ StatsMatching(p) = TxnObjectIDs
        /\ txns["t1"].amount = 10 /\ txns["t1"].status = "COMPLETED"
        /\ txns["t2"].amount = 20 /\ txns["t2"].status = "FAILED"
        /\ txnProc[p].ret.total = 2 /\ txnProc[p].ret.amount = 30
        /\ txnProc[p].ret.ok = 1 /\ txnProc[p].ret.bad = 1 /\ txnProc[p].ret.avg = 15

\* C25: a GetTransactionStats whose filter matches no transaction, and
\* whose repository call did not fail in the driver, returns success with
\* every field zero.
C25_EmptyStatsAreZero ==
    \A p \in Procs :
        (/\ TxnDone(p) /\ txnProc[p].op = "GetTransactionStats" /\ ~txnProc[p].flt
         /\ StatsMatching(p) = {})
        => /\ txnProc[p].res = ErrNil
           /\ txnProc[p].ret.total = 0 /\ txnProc[p].ret.amount = 0
           /\ txnProc[p].ret.ok = 0 /\ txnProc[p].ret.bad = 0 /\ txnProc[p].ret.avg = 0

\* the statistics of a user have been returned while the collection holds
\* transactions, none of them of the user
C25_Witness ==
    \E p \in Procs :
        /\ StatsReturned(p) /\ ~txnProc[p].hit /\ StatsMatching(p) = {}
        /\ txnProc[p].key[2][1] = "u1"
        /\ \E i \in TxnObjectIDs : txns[i].id # ""

\* ------------------------------------------------------------------ claims on failures

\* C27: for every TransferBalance that failed, the handler sends
\* FailedPrecondition if the use case failed for insufficient balance, and
\* Internal otherwise.
C27_InsufficientBalanceIsFailedPrecondition ==
    \A p \in Procs :
        (Transferred(p) /\ proc[p].res # ErrNil)
        => (HandlerTransferStatus(proc[p].res) = "FailedPrecondition"
            <=> proc[p].res \in {ErrInsufficient449, ErrInsufficientBalance})

\* C28: when the repository update inside ResetPassword, ChangePassword or
\* UpdateUserProfile fails, the call returns the failure and every cached
\* copy of a user keeps the field values it had: the cache holds the same
\* entries, and each of them refers to a user with unchanged fields.
C28_FailedWriteLeavesCache ==
    [][\A p \in Procs :
          (proc[p].pc \in {"rp_update", "cp_update", "up_update"} /\ proc'[p].pc = "done")
          => /\ proc'[p].res # ErrNil
             /\ cache' = cache
             /\ \A k \in DOMAIN cache :
                   cache[k].kind = "user" => heap'[cache'[k].ref] = heap[cache[k].ref]]_vars

\* the call of p is the last request that arrived, a ToggleListing or a
\* TransferOwnership whose repository write changed the document, and it
\* has returned
ListingWritten(p) ==
    /\ SkinDone(p) /\ skinProc[p].seq = skinOps
    /\ skinProc[p].op \in {"ToggleListing", "TransferOwnership"}
    /\ skinProc[p].rev > 0

\* C29: with one request at a time, when a ToggleListing or TransferOwnership
\* whose repository write succeeded has returned, with success or with the
\* error of the read of the skin after the write, the cache holds under
\* skin:<id> nothing but the skin the call returned, and no entry under the
\* lists of the skin's owner, of the new owner, and of the listed skins.
C29_WriteReturnsWithCacheCleared ==
    \A p \in Procs :
        ListingWritten(p) =>
            /\ skinCache[SkinKey(skinProc[p].id)].kind # "none"
                  => /\ skinProc[p].res = ErrNil
                     /\ skinCache[SkinKey(skinProc[p].id)] = SkinEntry("skin", skinProc[p].ret, {})
            /\ \A k \in {ListKey(skinProc[p].owned, TRUE), ListKey(skinProc[p].owned, FALSE),
                          ListKey("", TRUE)}
                      \cup (IF skinProc[p].op = "TransferOwnership"
                            THEN {ListKey(skinProc[p].owner, TRUE), ListKey(skinProc[p].owner, FALSE)}
                            ELSE {}) :
                   skinCache[k].kind = "none"

\* ------------------------------------------------------------------ claims on sessions

\* C30: once a ResetPassword for a user has returned success, every
\* ValidateSession that returns for a token issued to that user before the
\* reset returns a failure, whatever requests came in between.
C30_ResetRevokesSessions ==
    [][\A p \in Procs :
          (/\ proc[p].op = "ValidateSession"
           /\ proc[p].pc # "done" /\ proc'[p].pc = "done"
           /\ proc[p].token \in sessions.revoked)
          => proc'[p].res # ErrNil]_vars

\* C31: a ValidateSession that returns success for the token a Register call
\* returned, returns the user who registered with that call.
C31_TokenResolvesToItsUser ==
    \A p \in Procs :
        (/\ proc[p].pc = "done" /\ proc[p].op = "ValidateSession"
         /\ proc[p].res = ErrNil
         /\ sessions.name[proc[p].token] # "")
        => proc[p].b = sessions.name[proc[p].token]

\* C34: starting from an empty collection, with Register the only writer, at
\* most one stored user is an admin.
C34_OneAdminByRegistration ==
    Cardinality({u \in Users : db[u].exists /\ db[u].isAdmin}) <= 1

\* C32: a ValidateSession that arrived after a Logout of its token returned
\* success returns a failure.
C32_LoggedOutTokenRejected ==
    \A p \in Procs :
        (proc[p].pc = "done" /\ proc[p].op = "ValidateSession" /\ proc[p].late)
        => proc[p].res # ErrNil

\* the session of token t is found by a read of the cache or of the repository
SessionFound(t) ==
    \/ sessions.cache[t] # "" /\ now <= sessions.cexp[t]
    \/ sessions.repo[t] # ""

\* C33: a ValidateSession that returns for a session whose ExpiresAt is
\* earlier than the current time, with no failed read of the repository,
\* returns "session expired" and leaves the session neither in the cache
\* nor in the repository.
C33_ExpiredSessionRemoved ==
    [][\A p \in Procs :
          (/\ proc[p].op = "ValidateSession"
           /\ proc[p].pc # "done" /\ proc'[p].pc = "done" /\ ~proc'[p].flt
           /\ SessionFound(proc[p].token)
           /\ sessions.exp[proc[p].token] < now)
          => /\ proc'[p].res = SessionErr.expired
             /\ sessions'.cache[proc[p].token] = ""
             /\ sessions'.repo[proc[p].token] = ""]_vars

\* C35: with non-negative balances at the start and concurrent
\* TransferBalance calls of positive amounts the only writers, no stored
\* balance is negative.
C35_BalancesStayNonNegative ==
    \A u \in Users : db[u].exists => db[u].balance >= 0
\* C36: a TransferBalance whose sender is its receiver, of an amount above zero
\* and at most the stored balance, that returns success leaves the stored
\* balance as it was before the call.
C36_SelfTransferKeepsBalance ==
    \A p \in Procs :
       LET c == proc[p]
       IN  (/\ Transferred(p) /\ c.res = ErrNil /\ c.a = c.b
            /\ c.pre[c.a].exists /\ 0 < c.amt /\ c.amt <= c.pre[c.a].balance)
           => db[c.a].balance = c.pre[c.a].balance

\* C37: the key of a GetTransactionStats request is injective on (user_id,
\* start_date, end_date), dates that hold '_' included: a response that was
\* cached for one triple is never the answer to a request with another, so
\* what a request returns is what the repository holds for its own parameters.
C37_StatsKeysInjective ==
    \A p \in Procs :
       LET c == txnProc[p]
       IN  (c.pc = "done" /\ c.op = "GetTransactionStats" /\ c.params # <<>> /\ ~c.flt)
           => c.res = StatsAnswer(txns, c.params).err /\ c.ret = StatsAnswer(txns, c.params).val

\* no entry of the cache holds a copy of user u or its balance
NoCopyOf(u) ==
    /\ \A k \in Keys : cache[k].kind = "user" => heap[cache[k].ref].id # u
    /\ cache[Key(CacheKeyBalance, u)].kind = "none"

\* C38: when DeleteUser(U) has returned success the cache holds no copy of U
\* under a user:id, user:email, user:username or balance key, whatever reads
\* and profile updates came before; and a GetUserProfile or GetBalance of a
\* user deleted before the call fails, as does a Login with its username.
C38_DeletedUserLeavesNoCopy ==
    \A p \in Procs :
       LET c == proc[p]
       IN  /\ (Done(p) /\ c.op = "DeleteUser" /\ c.res = ErrNil) => NoCopyOf(c.a)
           /\ (Done(p) /\ c.op \in {"GetUserProfile", "GetBalance"} /\ ~c.pre[c.a].exists)
                 => c.res # ErrNil
           /\ (Done(p) /\ c.op = "Login" /\ c.res = ErrNil) => c.pre[c.a].exists

\* C39: ForgotPassword returns nil for a registered e-mail address as it does
\* for one that is not registered, whatever the token repository and the
\* e-mail sender do.
C39_ForgotPasswordReturnsNil ==
    \A p \in Procs :
       (Done(p) /\ proc[p].op = "ForgotPassword") => proc[p].res = ErrNil

\* C40: a transaction whose stored status is COMPLETED, FAILED or CANCELLED is
\* never given the status PENDING by an UpdateTransaction or CancelTransaction.
C40_FinalStatusNeverPending ==
    [][\A i \in TxnObjectIDs :
          txns[i].status \in {"COMPLETED", "FAILED", "CANCELLED"} => txns'[i].status # "PENDING"]_vars

====
